---- MODULE Spec2Model ----
(***************************************************************************)
(* Request authentication and dispatch of fastapi-agentrouter.             *)
(*                                                                         *)
(* One process serves one channel endpoint of one deployment:              *)
(*   "AgentRouter"  router.py            AgentRouter._add_*_route          *)
(*   "build_router" core/router.py with integrations/slack.py, discord.py  *)
(*   "routers"      routers/*.py gated by dependencies.py check_*_enabled  *)
(*   "secured"      core/security.py verify_platform_signature dependency  *)
(* A request is received, runs through the handler's steps and gets one    *)
(* response; then the next request is received.                            *)
(*                                                                         *)
(* Strings that the code parses are sequences of one-character strings     *)
(* (the timestamp header).  HMAC-SHA256 and Ed25519 are ideal: a digest    *)
(* or signature is identified with (key, signed fields).  Request bodies   *)
(* are named byte strings whose decoding and parsing are tabulated.        *)
(***************************************************************************)
EXTENDS Integers, Sequences, FiniteSets, TLC

VARIABLES
    cfg,      \* process-wide settings of the deployment (read-only)
    now,      \* time.time() in whole seconds
    req,      \* the inbound request being handled
    pc,       \* position of the request in the handler
    trace,    \* what the handler has done for this request, in order
    data,     \* parsed body (dict) once parsed
    query,    \* message / user_id / session_id extracted for the agent
    stream,   \* the agent's stream: fragments not yet yielded, raise flag
    parts,    \* response_parts collected so far
    resp      \* the HTTP response of this request

\* agents/vertexai/dependencies.py: the process environment, the lru_cache slot
\* of _get_cached_vertex_ai_engine, the constructions made, the calling threads
VARIABLES env, engine, built, caller

\* core/security.py: rate_limiter.requests, the calls that returned True since
\* the key was last reset, and the last call made on the limiter
VARIABLES requests, allowed, call

\* core/handlers.py WebhookEventHandler: each event dict's _retry_count, the
\* events not yet handed in, retry_queue, failed_events, event_queue and
\* processed_count, the last result of process_event, the frame of
\* process_retry_queue, and which events were ever queued or processed
VARIABLES retry_counts, inbox, retry_queue, failed_events, event_queue,
          processed_count, result, frame, queued, succeeded

\* core/handlers.py ConversationManager: conversations, every message added to
\* a conversation since it was last cleared, the messages made so far, and the
\* frame of process_message
VARIABLES conversations, added, serial, processing

\* core/resources.py ResourceManager: resources, cleanup_callbacks, where
\* cleanup() is in its loop, and the callbacks it has invoked in this call
VARIABLES resources, cleanup_callbacks, cleaning, invoked

\* integrations/slack/dependencies.py get_app_mention and get_message: the
\* event, what the Slack client and the agent will answer, and how far the
\* handler has come with the calls it has made; core/handlers.py: the
\* SlackEventHandler object
VARIABLES slack_event, slack_world, slack_run, slack_handler

\* agents/vertexai/adapter.py VertexAIAgentAdapter: the sessions the engine
\* holds for each user, and each thread's stream_query generator
VARIABLES vertex_sessions, vertex_frames

\* core/security.py check_rate_limit run in the threadpool: where each
\* thread is in rate_limiter.check_rate_limit
VARIABLES checking

\* the previous request on a route built with create_security_dependencies and
\* the response it got
VARIABLES last

dispatchVars == <<cfg, now, req, pc, trace, data, query, stream, parts, resp>>
engineVars == <<env, engine, built, caller>>
limiterVars == <<requests, allowed, call>>
webhookVars == <<retry_counts, inbox, retry_queue, failed_events, event_queue,
                 processed_count, result, frame, queued, succeeded>>

\* the parts of the library no request handler uses
conversationVars == <<conversations, added, serial, processing>>
resourceVars == <<resources, cleanup_callbacks, cleaning, invoked>>
slackVars == <<slack_event, slack_world, slack_run, slack_handler>>
adapterVars == <<vertex_sessions, vertex_frames>>
library == <<engineVars, webhookVars, conversationVars, resourceVars, slackVars,
             adapterVars, checking>>

\* what a step of a request leaves alone
kept == <<library, limiterVars, last>>

\* what each part of the library leaves alone
notEngine == <<dispatchVars, limiterVars, last, webhookVars, conversationVars,
               resourceVars, slackVars, adapterVars, checking>>
notLimiter == <<cfg, req, pc, trace, data, query, stream, parts, resp, last, engineVars,
                webhookVars, conversationVars, resourceVars, slackVars, adapterVars,
                checking>>
notWebhook == <<dispatchVars, limiterVars, last, engineVars, conversationVars,
                resourceVars, slackVars, adapterVars, checking>>
notConversation == <<dispatchVars, limiterVars, last, engineVars, webhookVars,
                     resourceVars, slackVars, adapterVars, checking>>
notSlack == <<dispatchVars, limiterVars, last, engineVars, webhookVars, conversationVars,
              resourceVars, adapterVars, checking>>
notResource == <<dispatchVars, limiterVars, last, engineVars, webhookVars,
                 conversationVars, slackVars, adapterVars, checking>>
notAdapter == <<dispatchVars, limiterVars, last, engineVars, webhookVars,
               conversationVars, resourceVars, slackVars, checking>>
notChecking == <<cfg, req, pc, trace, data, query, stream, parts, resp, last, engineVars,
                 webhookVars, conversationVars, resourceVars, slackVars, adapterVars>>

vars == <<dispatchVars, kept>>

(***************************************************************************)
(* Bounds                                                                  *)
(***************************************************************************)
\* longest agent stream enumerated
MaxFrags == 2

\* threads of the worker pool that call the cached engine
MaxThreads == 3

\* requests_per_minute of the rate limiter
RequestsPerMinute == 2

\* seconds of clock time followed
MaxElapsed == 120

\* resources registered with a ResourceManager
MaxResources == 3

\* max_history_length of a ConversationManager
MaxHistoryLength == 2

\* messages added to conversations
MaxMessages == 5

\* events handed to a WebhookEventHandler
MaxEvents == 2

\* config.retry_count
RetryCount == 2

\* maxlen of the handler's retry_queue and of its event_queue
RetryQueueMaxlen == 1

\* events handed to one SlackEventHandler
MaxDeliveries == 2

\* threads reading a stream_query generator of one adapter, and the sessions
\* its engine comes to hold
MaxCallers == 2
MaxSessions == 2

\* threadpool threads running the check_rate_limit dependency, and the calls
\* they make that are admitted
MaxCheckers == 2
MaxAdmitted == 3
EventQueueMaxlen == 2

(***************************************************************************)
(* Program constants                                                       *)
(***************************************************************************)
\* 60 * 5 seconds replay window
Tolerance == 300

\* process_message: get_history(conversation_id, limit=10)
HistoryLimit == 10

\* the rate limiter's window in seconds
Window == 60

Channels == {"slack", "discord", "webhook"}
Apps == {"AgentRouter", "build_router", "routers", "secured"}

(***************************************************************************)
(* Time and timestamp headers                                              *)
(***************************************************************************)
Now0 == 1000

Digits == {"0", "1", "2", "3", "4", "5", "6", "7", "8", "9"}

DigitVal(c) ==
    CASE c = "0" -> 0 [] c = "1" -> 1 [] c = "2" -> 2 [] c = "3" -> 3
      [] c = "4" -> 4 [] c = "5" -> 5 [] c = "6" -> 6 [] c = "7" -> 7
      [] c = "8" -> 8 [] c = "9" -> 9

RECURSIVE DecimalValue(_)
DecimalValue(s) ==
    IF s = <<>> THEN 0
    ELSE 10 * DecimalValue(SubSeq(s, 1, Len(s) - 1)) + DigitVal(s[Len(s)])

\* float(timestamp): a number, NaN, or ValueError
float(s) ==
    IF s # <<>> /\ \A i \in 1..Len(s) : s[i] \in Digits
    THEN [kind |-> "num", val |-> DecimalValue(s)]
    ELSE IF s = <<"n", "a", "n">>
    THEN [kind |-> "nan", val |-> 0]
    ELSE [kind |-> "ValueError", val |-> 0]

Abs(x) == IF x < 0 THEN -x ELSE x

\* abs(time.time() - float(timestamp)) > 60 * 5 ; every comparison with NaN is False
\* variant: only timestamps in the past count as too old
TimestampTooOld_pastOnly(t, f) ==
    f.kind = "num" /\ t - f.val > Tolerance

TimestampTooOld(t, f) ==
    f.kind = "num" /\ Abs(t - f.val) > Tolerance

TS_missing == <<>>
TS_text == <<"a", "b", "c">>
TS_nan == <<"n", "a", "n">>
TS_now == <<"1", "0", "0", "0">>
TS_edge_old == <<"7", "0", "0">>
TS_old == <<"6", "9", "9">>
TS_edge_new == <<"1", "3", "0", "0">>
TS_new == <<"1", "3", "0", "1">>

TimestampHeaders ==
    {TS_missing, TS_text, TS_nan, TS_now, TS_edge_old, TS_old, TS_edge_new, TS_new}

(***************************************************************************)
(* JSON values and request bodies                                          *)
(*                                                                         *)
(* A JSON scalar is a tagged pair; a JSON object is a function from        *)
(* flattened keys ("event", "event.text", ...) to scalars, a nested        *)
(* object being marked by Dict at its own key.                             *)
(***************************************************************************)
Str(s) == <<"str", s>>
Num(s) == <<"int", s>>
Dict == <<"dict", "">>
None == <<"none", "">>

EmptyDict == [k \in {} |-> None]

\* dict.get(key, default)
Get(d, k, dflt) == IF k \in DOMAIN d THEN d[k] ELSE dflt

\* Python truthiness of a scalar: "", None and 0 are falsy
Truthy(v) == ~(v = Str("") \/ v = None \/ v = Num("0"))

B_badutf8 == "<ff>"
B_empty == ""
B_notjson == "hello"
B_array == "[1]"
B_object == "{}"
B_urlverif == "{type:url_verification,challenge:abc123}"
B_event == "{type:event_callback,event:{type:message,text:Hello bot,user:U1}}"
B_event_notext == "{type:event_callback,event:{type:message,text:}}"
B_form == "command=%2Ftest&text=hi&user_id=U1"
B_form_urlverif == "type=url_verification&challenge=abc123"
B_ping == "{type:1}"
B_ping_str == "{type:'1'}"
B_command == "{type:2,data:{name:ask,options:[{name:message,value:hi}]},member:{user:{id:U1}}}"
B_command_bare == "{type:2,data:{name:ask}}"
B_command_empty == "{type:2,data:{name:ask,options:[{name:message,value:}]}}"
B_command_second == "{type:2,data:{name:ask,options:[{name:style,value:brief},{name:message,value:hi},{name:message,value:bye}]},member:{}}"
B_command_other == "{type:2,data:{name:ask,options:[{name:style,value:brief}]},member:{user:{}}}"
B_component == "{type:3}"
B_message == "{message:hi,session_id:s1}"
B_message_only == "{message:hi}"
B_message_empty == "{message:}"

SlackBodies ==
    {B_badutf8, B_empty, B_notjson, B_array, B_urlverif, B_event, B_event_notext,
     B_form, B_form_urlverif}

DiscordBodies ==
    {B_badutf8, B_notjson, B_array, B_object, B_ping, B_ping_str, B_command,
     B_command_bare, B_command_empty, B_command_second, B_command_other, B_component}

WebhookBodies ==
    {B_badutf8, B_notjson, B_array, B_object, B_message, B_message_only,
     B_message_empty}

\* bytes.decode("utf-8"): the text, or UnicodeDecodeError
decode(b) ==
    IF b = B_badutf8
    THEN [exc |-> "UnicodeDecodeError", text |-> ""]
    ELSE [exc |-> "", text |-> b]

\* a JSON array of objects, and an element of "options"
List(xs) == <<"list", xs>>
Option(name, value) == "name" :> Str(name) @@ "value" :> Str(value)

JsonObject(d) == [exc |-> "", kind |-> "dict", d |-> d]
JsonError(e) == [exc |-> e, kind |-> "", d |-> EmptyDict]

\* json.loads(body)
json_loads(b) ==
    CASE b = B_badutf8 -> JsonError("UnicodeDecodeError")
      [] b \in {B_empty, B_notjson, B_form, B_form_urlverif} -> JsonError("JSONDecodeError")
      [] b = B_array -> [exc |-> "", kind |-> "list", d |-> EmptyDict]
      [] b = B_object -> JsonObject(EmptyDict)
      [] b = B_urlverif ->
            JsonObject("type" :> Str("url_verification") @@ "challenge" :> Str("abc123"))
      [] b = B_event ->
            JsonObject("type" :> Str("event_callback") @@ "event" :> Dict
                       @@ "event.type" :> Str("message")
                       @@ "event.text" :> Str("Hello bot") @@ "event.user" :> Str("U1"))
      [] b = B_event_notext ->
            JsonObject("type" :> Str("event_callback") @@ "event" :> Dict
                       @@ "event.type" :> Str("message") @@ "event.text" :> Str(""))
      [] b = B_ping -> JsonObject("type" :> Num("1"))
      [] b = B_ping_str -> JsonObject("type" :> Str("1"))
      [] b = B_command ->
            JsonObject("type" :> Num("2") @@ "data" :> Dict @@ "data.name" :> Str("ask")
                       @@ "data.options" :> List(<<Option("message", "hi")>>)
                       @@ "member" :> Dict @@ "member.user" :> Dict
                       @@ "member.user.id" :> Str("U1"))
      [] b = B_command_bare ->
            JsonObject("type" :> Num("2") @@ "data" :> Dict @@ "data.name" :> Str("ask"))
      [] b = B_command_empty ->
            JsonObject("type" :> Num("2") @@ "data" :> Dict @@ "data.name" :> Str("ask")
                       @@ "data.options" :> List(<<Option("message", "")>>))
      [] b = B_command_second ->
            JsonObject("type" :> Num("2") @@ "data" :> Dict @@ "data.name" :> Str("ask")
                       @@ "data.options" :> List(<<Option("style", "brief"),
                                                   Option("message", "hi"),
                                                   Option("message", "bye")>>)
                       @@ "member" :> Dict)
      [] b = B_command_other ->
            JsonObject("type" :> Num("2") @@ "data" :> Dict @@ "data.name" :> Str("ask")
                       @@ "data.options" :> List(<<Option("style", "brief")>>)
                       @@ "member" :> Dict @@ "member.user" :> Dict)
      [] b = B_component -> JsonObject("type" :> Num("3"))
      [] b = B_message ->
            JsonObject("message" :> Str("hi") @@ "session_id" :> Str("s1"))
      [] b = B_message_only -> JsonObject("message" :> Str("hi"))
      [] b = B_message_empty -> JsonObject("message" :> Str(""))

\* {k: v[0] if len(v) == 1 else v for k, v in parse_qs(text).items()}:
\* fields without "=" and blank values are dropped by parse_qs
parse_qs(text) ==
    CASE text = B_form ->
            "command" :> Str("/test") @@ "text" :> Str("hi") @@ "user_id" :> Str("U1")
      [] text = B_form_urlverif ->
            "type" :> Str("url_verification") @@ "challenge" :> Str("abc123")
      [] OTHER -> EmptyDict

(***************************************************************************)
(* Slack request signing (HMAC-SHA256, ideal)                              *)
(***************************************************************************)
Secret == "test_secret"
OtherSecret == "attacker_secret"

\* "v0=" + hmac.new(secret, f"v0:{timestamp}:{text}", sha256).hexdigest()
my_signature(signing_secret, timestamp, text) ==
    [scheme |-> "v0=", key |-> signing_secret, ts |-> timestamp, text |-> text,
     ascii |-> TRUE]

\* the same digest sent without its "v0=" prefix
Unprefixed(sig) == [sig EXCEPT !.scheme = ""]

\* header absent: request.headers.get(..., "")
SigMissing == [scheme |-> "", key |-> "", ts |-> <<>>, text |-> "", ascii |-> TRUE]
\* "v0=invalid_signature"
SigJunk == [scheme |-> "v0=", key |-> "", ts |-> <<>>, text |-> "", ascii |-> TRUE]
\* a header value holding a non-ASCII character
SigNonAscii == [scheme |-> "v0=", key |-> "", ts |-> <<>>, text |-> "", ascii |-> FALSE]

\* variant: compares the version prefix only
compare_digest_prefix(a, b) ==
    [exc |-> "", eq |-> (a.scheme = b.scheme)]

\* hmac.compare_digest on two str: TypeError unless both are ASCII
compare_digest(a, b) ==
    IF ~a.ascii \/ ~b.ascii
    THEN [exc |-> "TypeError", eq |-> FALSE]
    ELSE [exc |-> "", eq |-> (a = b)]

\* the signatures a sender may attach to a request with this timestamp and body
SlackSignatures(timestamp, body) ==
    {my_signature(Secret, timestamp, body),
     Unprefixed(my_signature(Secret, timestamp, body)),
     my_signature(OtherSecret, timestamp, body),
     my_signature(Secret, timestamp, B_event),
     my_signature(Secret, TS_now, body),
     SigMissing, SigJunk, SigNonAscii}

Returned(v) == [exc |-> "", ok |-> v]
Raised(e) == [exc |-> e, ok |-> FALSE]

\* integrations/slack.py verify_slack_signature, evaluated at time t
verify_slack_signature(signing_secret, request_body, timestamp, signature, t) ==
    IF float(timestamp).kind = "ValueError" THEN Raised("ValueError")
    ELSE IF TimestampTooOld(t, float(timestamp)) THEN Returned(FALSE)
    ELSE IF decode(request_body).exc # "" THEN Raised(decode(request_body).exc)
    ELSE LET cmp == compare_digest(
                        my_signature(signing_secret, timestamp, decode(request_body).text),
                        signature)
         IN  IF cmp.exc # "" THEN Raised(cmp.exc) ELSE Returned(cmp.eq)

(***************************************************************************)
(* Discord request signing (Ed25519, ideal)                                *)
(*                                                                         *)
(* A key or signature header is hex text or not, of the right length or    *)
(* not; a signature names the key pair that made it and the (timestamp,    *)
(* body) it was made over.                                                 *)
(***************************************************************************)
PublicKey == [hex |-> TRUE, sized |-> TRUE, id |-> "app"]
\* os.getenv("DISCORD_PUBLIC_KEY", "") when unset
KeyUnset == [hex |-> TRUE, sized |-> FALSE, id |-> ""]
KeyNotHex == [hex |-> FALSE, sized |-> FALSE, id |-> ""]
\* hex text of the wrong length
KeyShort == [hex |-> TRUE, sized |-> FALSE, id |-> "app"]

PublicKeys == {PublicKey, KeyUnset, KeyNotHex, KeyShort}

Ed25519Sign(id, timestamp, body) ==
    [hex |-> TRUE, sized |-> TRUE, signer |-> id, ts |-> timestamp, body |-> body]

\* header absent: request.headers.get(..., "")
DSigMissing == [hex |-> TRUE, sized |-> FALSE, signer |-> "", ts |-> <<>>, body |-> ""]
DSigNotHex == [hex |-> FALSE, sized |-> FALSE, signer |-> "", ts |-> <<>>, body |-> ""]
DSigShort == [hex |-> TRUE, sized |-> FALSE, signer |-> "app", ts |-> <<>>, body |-> ""]

DiscordSignatures(timestamp, body) ==
    {Ed25519Sign("app", timestamp, body),
     Ed25519Sign("attacker", timestamp, body),
     Ed25519Sign("app", timestamp, B_ping),
     DSigMissing, DSigNotHex, DSigShort}

\* VerifyKey(bytes.fromhex(public_key)).verify(timestamp.encode() + body,
\*                                             bytes.fromhex(signature))
\* the exception it raises, "" when the signature verifies
nacl_verify(public_key, signature, timestamp, body) ==
    IF ~public_key.hex \/ ~public_key.sized THEN "ValueError"
    ELSE IF ~signature.hex \/ ~signature.sized THEN "ValueError"
    ELSE IF signature.signer # public_key.id
            \/ signature.ts # timestamp \/ signature.body # body
    THEN "BadSignatureError"
    ELSE ""

\* variant: catches BadSignatureError only
verify_discord_signature_narrow(public_key, signature, timestamp, body, nacl_installed) ==
    LET e == nacl_verify(public_key, signature, timestamp, body)
    IN  IF ~nacl_installed THEN Raised("ImportError")
        ELSE IF e = "" THEN Returned(TRUE)
        ELSE IF e = "BadSignatureError" THEN Returned(FALSE)
        ELSE Raised(e)

\* integrations/discord.py verify_discord_signature
verify_discord_signature(public_key, signature, timestamp, body, nacl_installed) ==
    IF ~nacl_installed THEN Raised("ImportError")
    ELSE Returned(nacl_verify(public_key, signature, timestamp, body) = "")

(***************************************************************************)
(* core/security.py: generic signed header "v0=<timestamp>,v0=<hexdigest>" *)
(*                                                                         *)
(* The header is the list of its comma-separated parts.  A part has a      *)
(* scheme prefix and then either characters or a digest.                   *)
(***************************************************************************)
TextPart(scheme, chars) ==
    [scheme |-> scheme, chars |-> chars, key |-> "", ts |-> <<>>, text |-> "",
     ascii |-> TRUE]

\* "v0=" + hmac.new(key, f"v0:{timestamp}:{text}", sha256).hexdigest()
DigestPart(key, timestamp, text) ==
    [scheme |-> "v0=", chars |-> <<>>, key |-> key, ts |-> timestamp, text |-> text,
     ascii |-> TRUE]

NonAsciiPart == [TextPart("v0=", <<>>) EXCEPT !.ascii = FALSE]

XSig(ps) == [present |-> TRUE, parts |-> ps]

\* no X-Signature header (or an empty one)
XSigNone == [present |-> FALSE, parts |-> <<>>]

DigitChar(d) ==
    CASE d = 0 -> "0" [] d = 1 -> "1" [] d = 2 -> "2" [] d = 3 -> "3" [] d = 4 -> "4"
      [] d = 5 -> "5" [] d = 6 -> "6" [] d = 7 -> "7" [] d = 8 -> "8" [] d = 9 -> "9"

\* str(n) for n >= 0
RECURSIVE str(_)
str(n) == IF n < 10 THEN <<DigitChar(n)>> ELSE Append(str(n \div 10), DigitChar(n % 10))

\* int(text): the number, or ValueError
int(chars) ==
    IF chars # <<>> /\ \A i \in 1..Len(chars) : chars[i] \in Digits
    THEN [kind |-> "num", val |-> DecimalValue(chars)]
    ELSE [kind |-> "ValueError", val |-> 0]

TS_padded == <<"0", "1", "0", "0", "0">>

\* the X-Signature headers a sender may attach to a request with this body
XSignatures(body) ==
    {XSigNone,
     XSig(<<TextPart("v0=", TS_now), DigestPart(Secret, TS_now, body)>>),
     XSig(<<TextPart("v0=", TS_padded), DigestPart(Secret, TS_now, body)>>),
     XSig(<<TextPart("v0=", TS_padded), DigestPart(Secret, TS_padded, body)>>),
     XSig(<<TextPart("v0=", TS_old), DigestPart(Secret, TS_old, body)>>),
     XSig(<<TextPart("v0=", TS_edge_new), DigestPart(Secret, TS_edge_new, body)>>),
     XSig(<<TextPart("v0=", TS_now), DigestPart(OtherSecret, TS_now, body)>>),
     XSig(<<TextPart("v0=", TS_now), DigestPart(Secret, TS_now, B_event)>>),
     XSig(<<TextPart("", TS_now), DigestPart(Secret, TS_now, body)>>),
     XSig(<<TextPart("v0=", TS_text), DigestPart(Secret, TS_text, body)>>),
     XSig(<<TextPart("v0=", TS_now), NonAsciiPart>>),
     XSig(<<DigestPart(Secret, TS_now, body)>>),
     XSig(<<TextPart("v0=", TS_now), DigestPart(Secret, TS_now, body),
            TextPart("", <<>>)>>)}

\* verify_signature without the timestamp window
verify_signature_anytime(secret_key, signature_header, body, timestamp_tolerance, t) ==
    IF Len(signature_header.parts) # 2 THEN FALSE
    ELSE LET timestamp_part == signature_header.parts[1]
             signature_part == signature_header.parts[2]
             timestamp == int(timestamp_part.chars)
         IN  IF timestamp_part.scheme # "v0=" THEN FALSE
             ELSE IF timestamp.kind = "ValueError" THEN FALSE
             ELSE IF decode(body).exc # "" THEN FALSE
             ELSE IF ~signature_part.ascii THEN FALSE
             ELSE signature_part
                    = DigestPart(secret_key, str(timestamp.val), decode(body).text)

\* core/security.py verify_signature, evaluated at time t: every exception
\* inside is caught and gives False
verify_signature(secret_key, signature_header, body, timestamp_tolerance, t) ==
    IF Len(signature_header.parts) # 2 THEN FALSE
    ELSE LET timestamp_part == signature_header.parts[1]
             signature_part == signature_header.parts[2]
             timestamp == int(timestamp_part.chars)
         IN  IF timestamp_part.scheme # "v0=" THEN FALSE
             ELSE IF timestamp.kind = "ValueError" THEN FALSE
             ELSE IF Abs(t - timestamp.val) > timestamp_tolerance THEN FALSE
             ELSE IF decode(body).exc # "" THEN FALSE
             ELSE IF ~signature_part.ascii THEN FALSE
             ELSE signature_part
                    = DigestPart(secret_key, str(timestamp.val), decode(body).text)

(***************************************************************************)
(* Agent streams                                                           *)
(***************************************************************************)
Fragment(kind, content) == [kind |-> kind, content |-> content]

\* a plain str, an object with a .content attribute, a dict with a "content" key
Fragments == {Fragment("str", "A"), Fragment("object", "B"), Fragment("dict", "C")}

SeqsUpTo(S, n) == UNION {[1..k -> S] : k \in 0..n}

\* what stream_query returns: a generator that yields its fragments and then
\* ends with StopIteration or an exception (next is the fragment it yields
\* next), or, from an async def stream_query, an async generator
Streams ==
    {s \in [frags : SeqsUpTo(Fragments, MaxFrags), raises : BOOLEAN,
             aio : BOOLEAN, next : {1}] : s.aio => ~s.raises}

NoStream == [frags |-> <<>>, raises |-> FALSE, aio |-> FALSE, next |-> 1]

AgentError == "Agent error"

\* TypeError of: for event in <async generator>
NotIterable == "'async_generator' object is not iterable"

\* str(e) of the exception the loop over the stream ends with
StreamError(s) == IF s.aio THEN NotIterable ELSE AgentError

\* "".join(parts): empty pieces vanish
Join(ps) == SelectSeq(ps, LAMBDA x : x # "")

\* if hasattr(event, "content"): append(event.content)
\* elif isinstance(event, str): append(event)
Collect(ps, event) ==
    IF event.kind = "object" THEN Append(ps, event.content)
    ELSE IF event.kind = "str" THEN Append(ps, event.content)
    ELSE ps

(***************************************************************************)
(* Responses                                                               *)
(***************************************************************************)
NoResponse ==
    [status |-> 0, media |-> "", type |-> "", text |-> <<>>, session |-> None, exc |-> ""]

\* raise HTTPException(status_code, detail): JSON {"detail": detail}
HTTPException(status, detail) ==
    [NoResponse EXCEPT !.status = status, !.media = "detail", !.text = <<detail>>]

\* PlainTextResponse(content=...)
PlainTextResponse(content) ==
    [NoResponse EXCEPT !.status = 200, !.media = "text/plain", !.text = content]

\* JSONResponse({"type": 1})
PongResponse ==
    [NoResponse EXCEPT !.status = 200, !.media = "json", !.type = "1"]

\* JSONResponse({"type": 4, "data": {"content": content}})
InteractionResponse(content) ==
    [NoResponse EXCEPT !.status = 200, !.media = "json", !.type = "4", !.text = content]

\* JSONResponse({"response": text, "session_id": session_id})
WebhookResponse(text, session_id) ==
    [NoResponse EXCEPT !.status = 200, !.media = "json", !.text = text,
                       !.session = session_id]

\* JSONResponse(content=response.model_dump()): {"content": ..., "metadata": None}
AgentResponseDump(content) ==
    [NoResponse EXCEPT !.status = 200, !.media = "json", !.type = "AgentResponse",
                       !.text = <<content>>]

\* JSONResponse({"status": "ok", "platform": platform})
StatusResponse(platform) ==
    [NoResponse EXCEPT !.status = 200, !.media = "json", !.text = <<"ok", platform>>]

\* an exception no handler catches: the server answers 500 Internal Server Error
Unhandled(e) ==
    [NoResponse EXCEPT !.status = 500, !.media = "text/plain",
                       !.text = <<"Internal Server Error">>, !.exc = e]

\* dependencies.py get_agent_placeholder
get_agent_placeholder ==
    HTTPException(500, "Agent not configured. Please provide agent dependency.")

(***************************************************************************)
(* Settings and requests                                                   *)
(***************************************************************************)
Setting(app, channel, enabled, secret, key, agent_ok, nacl, verify, rate_limit) ==
    [app |-> app, channel |-> channel, enabled |-> enabled, secret |-> secret,
     public_key |-> key, agent_ok |-> agent_ok, nacl |-> nacl, verify |-> verify,
     rate_limit |-> rate_limit]

\* router.py: enable_* flags, SLACK_SIGNING_SECRET / DISCORD_PUBLIC_KEY from the
\* environment, a get_agent provider that may be the raising placeholder
AgentRouterSettings ==
    {Setting("AgentRouter", "slack", e, s, PublicKey, a, TRUE, TRUE, FALSE) :
        e \in BOOLEAN, s \in {Secret, ""}, a \in BOOLEAN}
    \cup {Setting("AgentRouter", "discord", e, Secret, k, a, n, TRUE, FALSE) :
        e \in BOOLEAN, k \in PublicKeys, a \in BOOLEAN, n \in BOOLEAN}
    \cup {Setting("AgentRouter", "webhook", e, Secret, PublicKey, a, TRUE, TRUE, FALSE) :
        e \in BOOLEAN, a \in BOOLEAN}

\* core/router.py build_router: routes exist only for configured channels; the
\* agent object and the secrets are given when the router is built
BuildRouterSettings ==
    {Setting("build_router", "slack", TRUE, Secret, PublicKey, TRUE, TRUE, TRUE, FALSE)}
    \cup {Setting("build_router", "discord", TRUE, Secret, k, TRUE, n, TRUE, FALSE) :
        k \in PublicKeys \ {KeyUnset}, n \in BOOLEAN}
    \cup {Setting("build_router", "webhook", TRUE, Secret, PublicKey, TRUE, TRUE, TRUE, FALSE)}

\* routers/*.py: settings.disable_* gates, the Agent dependency
RoutersSettings ==
    {Setting("routers", c, e, Secret, PublicKey, a, TRUE, TRUE, FALSE) :
        c \in Channels, e \in BOOLEAN, a \in BOOLEAN}

\* core/security.py: verify_<platform>_signature, <platform>_signing_secret, and
\* whether the route's dependencies are those of create_security_dependencies,
\* which put check_rate_limit first
SecuredSettings ==
    {Setting("secured", "slack", TRUE, s, PublicKey, TRUE, TRUE, v, l) :
        s \in {Secret, ""}, v \in BOOLEAN, l \in BOOLEAN}

Settings == AgentRouterSettings \cup BuildRouterSettings \cup RoutersSettings
            \cup SecuredSettings

\* request.client.host
ClientIp == "client_ip"

\* a value of the X-Rate-Limit-Key header
Tenant == "tenant"

\* keys the rate limiter is asked about
Keys == {ClientIp, Tenant}

Request(ts, sig, dsig, xsig, body, json, rate_limit_key) ==
    [ts |-> ts, sig |-> sig, dsig |-> dsig, xsig |-> xsig, body |-> body, json |-> json,
     rate_limit_key |-> rate_limit_key]

NoRequest == Request(<<>>, SigMissing, DSigMissing, XSigNone, "", FALSE, ClientIp)

SlackRequests ==
    {Request(ts, sig, DSigMissing, XSigNone, b, j, ClientIp) :
        ts \in TimestampHeaders, b \in SlackBodies, j \in BOOLEAN,
        sig \in UNION {SlackSignatures(t, c) : t \in TimestampHeaders, c \in SlackBodies}}

DiscordRequests ==
    {Request(ts, SigMissing, dsig, XSigNone, b, TRUE, ClientIp) :
        ts \in {TS_now, TS_missing}, b \in DiscordBodies,
        dsig \in UNION {DiscordSignatures(t, c) : t \in {TS_now, TS_missing},
                                                   c \in DiscordBodies}}

WebhookRequests ==
    {Request(<<>>, SigMissing, DSigMissing, XSigNone, b, TRUE, ClientIp) : b \in WebhookBodies}

\* the requests a client may send to the endpoint: a signature is one of those a
\* sender can attach to this very timestamp and body
SecuredRequests ==
    {Request(<<>>, SigMissing, DSigMissing, x, b, TRUE, k) :
        b \in {B_event, B_badutf8}, k \in Keys,
        x \in UNION {XSignatures(c) : c \in {B_event, B_badutf8}}}

Requests(c) ==
    CASE c.app = "secured" ->
            {r \in SecuredRequests : r.xsig \in XSignatures(r.body)}
      [] c.channel = "slack" ->
            {r \in SlackRequests : r.sig \in SlackSignatures(r.ts, r.body)}
      [] c.channel = "discord" ->
            {r \in DiscordRequests : r.dsig \in DiscordSignatures(r.ts, r.body)}
      [] c.channel = "webhook" -> WebhookRequests

NoQuery == [message |-> None, user_id |-> None, session_id |-> None]

(***************************************************************************)
(* The request cycle                                                       *)
(***************************************************************************)
(***************************************************************************)
(* Library state outside the dispatch of a request                         *)
(***************************************************************************)
Threads == 1..MaxThreads

\* no engine yet
NoEngine == 0

\* a thread outside _get_cached_vertex_ai_engine
NotCalling == [at |-> "idle", got |-> NoEngine, exc |-> ""]

\* the engine is never asked for
EngineUnused ==
    /\ env = [enabled |-> FALSE, sdk |-> FALSE]
    /\ engine = NoEngine
    /\ built = 0
    /\ caller = [t \in Threads |-> NotCalling]

\* core/security.py RateLimiter: no call yet
NoCall == [op |-> "", key |-> "", ok |-> FALSE]

\* rate_limiter = RateLimiter()
RateLimiter ==
    /\ requests = [k \in Keys |-> <<>>]
    /\ allowed = [k \in Keys |-> <<>>]
    /\ call = NoCall

\* the request times of a key that are kept at time t
Recent(times, t) == SelectSeq(times, LAMBDA req_time : req_time > t - Window)

\* check_rate_limit refusing only above the limit
RateLimiter_check_rate_limit_late(key) ==
    LET cleaned == Recent(requests[key], now) IN
    IF Len(cleaned) > RequestsPerMinute
    THEN /\ requests' = [requests EXCEPT ![key] = cleaned]
         /\ call' = [op |-> "check_rate_limit", key |-> key, ok |-> FALSE]
         /\ UNCHANGED allowed
    ELSE /\ requests' = [requests EXCEPT ![key] = Append(cleaned, now)]
         /\ call' = [op |-> "check_rate_limit", key |-> key, ok |-> TRUE]
         /\ allowed' = [allowed EXCEPT ![key] = Append(@, now)]

\* RateLimiter.check_rate_limit(key) at time.time() = now
RateLimiter_check_rate_limit(key) ==
    LET cleaned == Recent(requests[key], now) IN
    IF Len(cleaned) >= RequestsPerMinute
    THEN /\ requests' = [requests EXCEPT ![key] = cleaned]
         /\ call' = [op |-> "check_rate_limit", key |-> key, ok |-> FALSE]
         /\ UNCHANGED allowed
    ELSE /\ requests' = [requests EXCEPT ![key] = Append(cleaned, now)]
         /\ call' = [op |-> "check_rate_limit", key |-> key, ok |-> TRUE]
         /\ allowed' = [allowed EXCEPT ![key] = Append(@, now)]

\* RateLimiter.reset(key): a key that is None or empty resets every key
RateLimiter_reset(key) ==
    /\ IF key # ""
       THEN /\ requests' = [requests EXCEPT ![key] = <<>>]
            /\ allowed' = [allowed EXCEPT ![key] = <<>>]
       ELSE /\ requests' = [k \in Keys |-> <<>>]
            /\ allowed' = [k \in Keys |-> <<>>]
    /\ call' = [op |-> "reset", key |-> key, ok |-> TRUE]

\* core/handlers.py WebhookEventHandler
EventIds == 1..MaxEvents

\* no process_event call yet
NoResult == [id |-> 0, status |-> "", retry_count |-> 0, by |-> ""]

\* process_retry_queue is not running
NoFrame == [at |-> "idle", processed |-> 0, failed |-> 0]

\* WebhookEventHandler.__init__
WebhookEventHandler ==
    /\ retry_queue = <<>>
    /\ failed_events = <<>>
    /\ event_queue = <<>>
    /\ processed_count = 0
    /\ result = NoResult
    /\ frame = NoFrame
    /\ queued = {}
    /\ succeeded = {}

\* no handler is built
WebhookUnused ==
    /\ retry_counts = [e \in EventIds |-> 0]
    /\ inbox = {}
    /\ WebhookEventHandler

\* append of a deque that has no maxlen
deque_append_unbounded(q, x, maxlen) == Append(q, x)

\* deque(maxlen=n).append(x): a full deque drops its oldest entry
deque_append(q, x, maxlen) ==
    IF Len(q) >= maxlen THEN Append(Tail(q), x) ELSE Append(q, x)

\* core/handlers.py ConversationManager
ConversationIds == {"conv1", "conv2"}

\* ConversationManager.__init__; no conversation was ever added to
\* process_message is not running
NotProcessing ==
    [at |-> "idle", conversation_id |-> "", user |-> 0, stream |-> NoStream,
     history |-> <<>>, response_parts |-> <<>>, assistant |-> 0]

ConversationManager ==
    /\ conversations = <<>>
    /\ added = [c \in ConversationIds |-> <<>>]
    /\ serial = 0
    /\ processing = NotProcessing

\* core/resources.py ResourceManager.__init__
ResourceManager ==
    /\ resources = <<>>
    /\ cleanup_callbacks = <<>>
    /\ cleaning = [at |-> "idle", i |-> 0]
    /\ invoked = <<>>

\* integrations/slack/dependencies.py: a text is a run of words, or null
Text(words) == [null |-> FALSE, words |-> words]
NullText == [null |-> TRUE, words |-> <<>>]

\* f"<@{bot_user_id}>" for the bot and the same for somebody else
BotMention == "<@U_BOT>"
OtherMention == "<@U_OTHER>"
Aside == "(aside)"

\* no message event has been delivered
NoSlackEvent ==
    [bot_id |-> None, subtype |-> None, thread_ts |-> None, text |-> Text(<<>>),
     channel |-> Str(""), ts |-> Str(""), user |-> Str("")]

\* what agent.stream_query yields, event_data by event_data, and whether it
\* raises when they are used up
EventData(events, raises) == [events |-> events, raises |-> raises]

NoSlackWorld == [replies |-> "raises", messages |-> <<>>, auth_test |-> "raises",
                 agent |-> EventData(<<>>, TRUE)]

\* handler: which handler got the event; asked: the (user_id, session_id) of
\* each stream_query call; said: the (text, thread_ts) of each say call
NoSlackRun ==
    [at |-> "idle", handler |-> "", calls |-> <<>>, raised |-> "", asked |-> <<>>,
     said |-> <<>>]

\* SlackEventHandler.__init__ after BaseEventHandler.__init__
SlackEventHandler ==
    slack_handler = [event_queue |-> <<>>, processed_count |-> 0,
                     thread_contexts |-> [k \in {} |-> <<>>]]

SlackUnused ==
    /\ slack_event = NoSlackEvent
    /\ slack_world = NoSlackWorld
    /\ slack_run = NoSlackRun
    /\ SlackEventHandler

\* agents/vertexai/adapter.py: an optional string is None or a string of
\* characters
NoId == [some |-> FALSE, id |-> <<>>]
Id(chars) == [some |-> TRUE, id |-> chars]
Callers == 1..MaxCallers
DefaultUser == <<"default_user">>
User456 == <<"user-456">>
EngineUsers == {DefaultUser, User456}

\* no generator of stream_query is being read; listed, created and queried
\* are the calls it has made on the engine
NoVertexFrame ==
    [at |-> "idle", user_id |-> NoId, session_id |-> NoId, actual |-> NoId,
     listed |-> <<>>, created |-> <<>>, queried |-> <<>>]

\* an engine that holds no session yet
AdapterUnused ==
    /\ vertex_sessions = [u \in EngineUsers |-> <<>>]
    /\ vertex_frames = [t \in Callers |-> NoVertexFrame]

\* core/security.py: no thread is inside rate_limiter.check_rate_limit
Checkers == 1..MaxCheckers
NotChecking == [at |-> "idle", key |-> "", now |-> 0, cleaned |-> <<>>]
CheckersIdle == checking = [t \in Checkers |-> NotChecking]

\* no request was answered yet
NoLast == [req |-> NoRequest, resp |-> NoResponse]

\* no request has arrived yet
Idle ==
    /\ now = Now0
    /\ req = NoRequest
    /\ pc = "idle"
    /\ trace = <<>>
    /\ data = EmptyDict
    /\ query = NoQuery
    /\ stream = NoStream
    /\ parts = <<>>
    /\ resp = NoResponse
    /\ last = NoLast

\* a process that mounts none of the routers
Unrouted ==
    /\ cfg = Setting("AgentRouter", "webhook", FALSE, Secret, PublicKey, FALSE, TRUE, TRUE, FALSE)
    /\ Idle

\* the parts of the library the deployment does not use
Unused ==
    /\ EngineUnused
    /\ WebhookUnused
    /\ ConversationManager
    /\ ResourceManager
    /\ SlackUnused
    /\ AdapterUnused
    /\ CheckersIdle

Init ==
    /\ cfg \in Settings
    /\ Idle
    /\ RateLimiter
    /\ Unused

\* a response ends the request
Respond(r) ==
    /\ resp' = r
    /\ pc' = "done"

Did(events) == trace' = trace \o events

\* the server accepts the next request and resolves the route
Receive ==
    /\ pc = "idle"
    /\ req' \in Requests(cfg)
    /\ pc' = IF cfg.app = "build_router" THEN "verify" ELSE "dependencies"
    /\ UNCHANGED <<kept, cfg, now, trace, data, query, stream, parts, resp>>

\* the response is sent; everything made for the request is discarded
Finish ==
    /\ pc = "done"
    /\ pc' = "idle"
    /\ req' = NoRequest
    /\ trace' = <<>>
    /\ data' = EmptyDict
    /\ query' = NoQuery
    /\ stream' = NoStream
    /\ parts' = <<>>
    /\ resp' = NoResponse
    /\ last' = IF cfg.app = "secured" THEN [req |-> req, resp |-> resp] ELSE last
    /\ UNCHANGED <<library, limiterVars, cfg, now>>

(***************************************************************************)
(* router.py: AgentRouter                                                  *)
(***************************************************************************)
\* add_api_route(..., dependencies=[Depends(self.get_agent)]): the provider is
\* called before the endpoint function runs
AgentRouter_dependencies ==
    /\ cfg.app = "AgentRouter"
    /\ pc = "dependencies"
    /\ Did(<<"get_agent">>)
    /\ IF cfg.agent_ok
       THEN pc' = "gate" /\ UNCHANGED resp
       ELSE Respond(get_agent_placeholder)
    /\ UNCHANGED <<kept, cfg, now, req, data, query, stream, parts>>

\* variant: the handler goes on after raising for a disabled channel
handle_slack_events_gate_goesOn ==
    /\ cfg.app = "AgentRouter" /\ cfg.channel = "slack"
    /\ pc = "gate"
    /\ Did(<<"gate">>)
    /\ pc' = "verify"
    /\ resp' = IF cfg.enabled THEN resp
               ELSE HTTPException(501, "Slack integration is not enabled")
    /\ UNCHANGED <<kept, cfg, now, req, data, query, stream, parts>>

\* handle_slack_events: if not self.enable_slack
handle_slack_events_gate ==
    /\ cfg.app = "AgentRouter" /\ cfg.channel = "slack"
    /\ pc = "gate"
    /\ Did(<<"gate">>)
    /\ IF cfg.enabled
       THEN pc' = "verify" /\ UNCHANGED resp
       ELSE Respond(HTTPException(501, "Slack integration is not enabled"))
    /\ UNCHANGED <<kept, cfg, now, req, data, query, stream, parts>>

\* handle_slack_events: provider, signing secret, body and headers, signature
handle_slack_events_verify ==
    /\ cfg.app = "AgentRouter" /\ cfg.channel = "slack"
    /\ pc = "verify"
    /\ IF ~cfg.agent_ok
       THEN Did(<<"get_agent">>) /\ Respond(get_agent_placeholder)
       ELSE IF cfg.secret = ""
       THEN /\ Did(<<"get_agent", "secret">>)
            /\ Respond(HTTPException(500, "SLACK_SIGNING_SECRET not configured"))
       ELSE IF float(req.ts).kind = "ValueError"
       THEN Did(<<"get_agent", "secret", "body">>) /\ Respond(Unhandled("ValueError"))
       ELSE IF TimestampTooOld(now, float(req.ts))
       THEN /\ Did(<<"get_agent", "secret", "body">>)
            /\ Respond(HTTPException(400, "Request timestamp too old"))
       ELSE IF decode(req.body).exc # ""
       THEN /\ Did(<<"get_agent", "secret", "body">>)
            /\ Respond(Unhandled(decode(req.body).exc))
       ELSE LET cmp == compare_digest(
                           my_signature(cfg.secret, req.ts, decode(req.body).text),
                           req.sig)
            IN  IF cmp.exc # ""
                THEN /\ Did(<<"get_agent", "secret", "body">>)
                     /\ Respond(Unhandled(cmp.exc))
                ELSE IF ~cmp.eq
                THEN /\ Did(<<"get_agent", "secret", "body">>)
                     /\ Respond(HTTPException(400, "Invalid request signature"))
                ELSE /\ Did(<<"get_agent", "secret", "body", "verified">>)
                     /\ pc' = "parse"
                     /\ UNCHANGED resp
    /\ UNCHANGED <<kept, cfg, now, req, data, query, stream, parts>>

\* json.loads(body) or parse_qs(body.decode("utf-8")), by content type
\* variant: always json.loads, whatever the content type
SlackPayload_jsonOnly(r) == json_loads(r.body)

SlackPayload(r) ==
    IF r.json THEN json_loads(r.body)
    ELSE IF decode(r.body).exc # "" THEN JsonError(decode(r.body).exc)
    ELSE JsonObject(parse_qs(decode(r.body).text))

\* handle_slack_events: parse the body, answer a URL verification
handle_slack_events_parse ==
    /\ cfg.app = "AgentRouter" /\ cfg.channel = "slack"
    /\ pc = "parse"
    /\ Did(<<"parse">>)
    /\ LET p == SlackPayload(req)
       IN  IF p.exc # ""
           THEN Respond(Unhandled(p.exc)) /\ UNCHANGED data
           ELSE IF p.kind # "dict"
           THEN Respond(Unhandled("AttributeError")) /\ UNCHANGED data
           ELSE IF Get(p.d, "type", None) = Str("url_verification")
           THEN /\ Respond(PlainTextResponse(Join(<<Get(p.d, "challenge", Str(""))[2]>>)))
                /\ data' = p.d
           ELSE /\ data' = p.d
                /\ pc' = "extract"
                /\ UNCHANGED resp
    /\ UNCHANGED <<kept, cfg, now, req, query, stream, parts>>

\* handle_slack_events: text and user of an event callback or a slash command
handle_slack_events_extract ==
    /\ cfg.app = "AgentRouter" /\ cfg.channel = "slack"
    /\ pc = "extract"
    /\ Did(<<"extract">>)
    /\ LET text == IF "event" \in DOMAIN data THEN Get(data, "event.text", Str(""))
                   ELSE IF "text" \in DOMAIN data THEN Get(data, "text", Str(""))
                   ELSE Str("")
           user_id == IF "event" \in DOMAIN data THEN Get(data, "event.user", Str(""))
                      ELSE IF "text" \in DOMAIN data THEN Get(data, "user_id", Str(""))
                      ELSE Str("")
       IN  IF ~Truthy(text)
           THEN /\ Respond(PlainTextResponse(<<"Please provide a message.">>))
                /\ UNCHANGED query
           ELSE /\ query' = [message |-> text, user_id |-> user_id, session_id |-> None]
                /\ pc' = "invoke"
                /\ UNCHANGED resp
    /\ UNCHANGED <<kept, cfg, now, req, data, stream, parts>>

\* agent.stream_query(...) is called and returns its stream
StreamQuery ==
    /\ pc = "invoke"
    /\ Did(<<"stream_query">>)
    /\ stream' \in Streams
    /\ parts' = <<>>
    /\ pc' = "iterate"
    /\ UNCHANGED <<kept, cfg, now, req, data, query, resp>>

\* one turn of: for event in stream: collect its text
StreamNext ==
    /\ pc = "iterate"
    /\ ~stream.aio
    /\ stream.next <= Len(stream.frags)
    /\ Did(<<"fragment">>)
    /\ parts' = Collect(parts, stream.frags[stream.next])
    /\ stream' = [stream EXCEPT !.next = stream.next + 1]
    /\ UNCHANGED <<kept, cfg, now, req, pc, data, query, resp>>

\* variant: the loop is left before the stream has ended
StreamExhausted_early ==
    pc = "iterate" /\ ~stream.aio /\ ~stream.raises

\* the loop ends: StopIteration
StreamExhausted ==
    pc = "iterate" /\ ~stream.aio /\ stream.next > Len(stream.frags) /\ ~stream.raises

\* the loop ends with an exception: raised by the agent, or the TypeError of
\* iterating an async generator with a plain for
StreamRaised ==
    /\ pc = "iterate"
    /\ stream.aio \/ (stream.next > Len(stream.frags) /\ stream.raises)

\* handle_slack_events: for event in agent.stream_query(message=text, user_id=user_id)
handle_slack_events_invoke ==
    /\ cfg.app = "AgentRouter" /\ cfg.channel = "slack"
    /\ StreamQuery

handle_slack_events_iterate ==
    /\ cfg.app = "AgentRouter" /\ cfg.channel = "slack"
    /\ StreamNext

\* handle_slack_events: return PlainTextResponse(content="".join(response_parts))
handle_slack_events_respond ==
    /\ cfg.app = "AgentRouter" /\ cfg.channel = "slack"
    /\ StreamExhausted
    /\ Did(<<"translate">>)
    /\ Respond(PlainTextResponse(Join(parts)))
    /\ UNCHANGED <<kept, cfg, now, req, data, query, stream, parts>>

\* handle_slack_events: except Exception as e
handle_slack_events_except ==
    /\ cfg.app = "AgentRouter" /\ cfg.channel = "slack"
    /\ StreamRaised
    /\ Did(<<"except">>)
    /\ Respond(PlainTextResponse(<<"Error: ", StreamError(stream)>>))
    /\ UNCHANGED <<kept, cfg, now, req, data, query, stream, parts>>

handle_slack_events ==
    \/ handle_slack_events_gate
    \/ handle_slack_events_verify
    \/ handle_slack_events_parse
    \/ handle_slack_events_extract
    \/ handle_slack_events_invoke
    \/ handle_slack_events_iterate
    \/ handle_slack_events_respond
    \/ handle_slack_events_except

\* variant: compares the type with the string "1"
IsPing_str(d) == Get(d, "type", None) = Str("1")

\* interaction.get("type") == 1
IsPing(d) == Get(d, "type", None) = Num("1")

\* every interaction that is not a PING taken for a command
IsCommand_other(d) == ~IsPing(d)

\* interaction.get("type") == 2
IsCommand(d) == Get(d, "type", None) = Num("2")

\* handle_discord_interactions: if not self.enable_discord
handle_discord_interactions_gate ==
    /\ cfg.app = "AgentRouter" /\ cfg.channel = "discord"
    /\ pc = "gate"
    /\ Did(<<"gate">>)
    /\ IF cfg.enabled
       THEN pc' = "verify" /\ UNCHANGED resp
       ELSE Respond(HTTPException(501, "Discord integration is not enabled"))
    /\ UNCHANGED <<kept, cfg, now, req, data, query, stream, parts>>

\* handle_discord_interactions: provider, public key, headers and body, signature
handle_discord_interactions_verify ==
    /\ cfg.app = "AgentRouter" /\ cfg.channel = "discord"
    /\ pc = "verify"
    /\ IF ~cfg.agent_ok
       THEN Did(<<"get_agent">>) /\ Respond(get_agent_placeholder)
       ELSE IF cfg.public_key = KeyUnset
       THEN /\ Did(<<"get_agent", "secret">>)
            /\ Respond(HTTPException(500, "DISCORD_PUBLIC_KEY not configured"))
       ELSE IF ~cfg.nacl
       THEN Did(<<"get_agent", "secret", "body">>) /\ Respond(Unhandled("ImportError"))
       ELSE IF nacl_verify(cfg.public_key, req.dsig, req.ts, req.body) # ""
       THEN /\ Did(<<"get_agent", "secret", "body">>)
            /\ Respond(HTTPException(401, "Invalid request signature"))
       ELSE /\ Did(<<"get_agent", "secret", "body", "verified">>)
            /\ pc' = "parse"
            /\ UNCHANGED resp
    /\ UNCHANGED <<kept, cfg, now, req, data, query, stream, parts>>

\* handle_discord_interactions: parse the interaction, answer PING and
\* unsupported types
handle_discord_interactions_parse ==
    /\ cfg.app = "AgentRouter" /\ cfg.channel = "discord"
    /\ pc = "parse"
    /\ Did(<<"parse">>)
    /\ LET p == json_loads(req.body)
       IN  IF p.exc # ""
           THEN Respond(Unhandled(p.exc)) /\ UNCHANGED data
           ELSE IF p.kind # "dict"
           THEN Respond(Unhandled("AttributeError")) /\ UNCHANGED data
           ELSE IF IsPing(p.d)
           THEN Respond(PongResponse) /\ data' = p.d
           ELSE IF IsCommand(p.d)
           THEN data' = p.d /\ pc' = "extract" /\ UNCHANGED resp
           ELSE /\ Respond(InteractionResponse(<<"Unsupported interaction type">>))
                /\ data' = p.d
    /\ UNCHANGED <<kept, cfg, now, req, query, stream, parts>>

\* the loop over options taking the last option named "message"
RECURSIVE message_option_last(_, _)
message_option_last(options, command_name) ==
    IF options = <<>> THEN command_name
    ELSE IF Get(options[Len(options)], "name", None) = Str("message")
    THEN Get(options[Len(options)], "value", command_name)
    ELSE message_option_last(SubSeq(options, 1, Len(options) - 1), command_name)

\* for option in options: the value of the first one named "message", else
\* the command name
RECURSIVE message_option(_, _)
message_option(options, command_name) ==
    IF options = <<>> THEN command_name
    ELSE IF Get(Head(options), "name", None) = Str("message")
    THEN Get(Head(options), "value", command_name)
    ELSE message_option(Tail(options), command_name)

\* handle_discord_interactions: the "message" option or the command name, and
\* member.user.id
handle_discord_interactions_extract ==
    /\ cfg.app = "AgentRouter" /\ cfg.channel = "discord"
    /\ pc = "extract"
    /\ Did(<<"extract">>)
    /\ LET command_name == Get(data, "data.name", Str(""))
           options == Get(data, "data.options", List(<<>>))[2]
           message_text == message_option(options, command_name)
           user_id == Get(data, "member.user.id", Str(""))
       IN  query' = [message |-> message_text, user_id |-> user_id, session_id |-> None]
    /\ pc' = "invoke"
    /\ UNCHANGED <<kept, cfg, now, req, data, stream, parts, resp>>

\* handle_discord_interactions: for event in agent.stream_query(message=..., user_id=...)
handle_discord_interactions_invoke ==
    /\ cfg.app = "AgentRouter" /\ cfg.channel = "discord"
    /\ StreamQuery

handle_discord_interactions_iterate ==
    /\ cfg.app = "AgentRouter" /\ cfg.channel = "discord"
    /\ StreamNext

\* handle_discord_interactions: JSONResponse type 4 with the joined text
handle_discord_interactions_respond ==
    /\ cfg.app = "AgentRouter" /\ cfg.channel = "discord"
    /\ StreamExhausted
    /\ Did(<<"translate">>)
    /\ Respond(InteractionResponse(Join(parts)))
    /\ UNCHANGED <<kept, cfg, now, req, data, query, stream, parts>>

\* handle_discord_interactions: except Exception as e
handle_discord_interactions_except ==
    /\ cfg.app = "AgentRouter" /\ cfg.channel = "discord"
    /\ StreamRaised
    /\ Did(<<"except">>)
    /\ Respond(InteractionResponse(<<"Error: ", StreamError(stream)>>))
    /\ UNCHANGED <<kept, cfg, now, req, data, query, stream, parts>>

handle_discord_interactions ==
    \/ handle_discord_interactions_gate
    \/ handle_discord_interactions_verify
    \/ handle_discord_interactions_parse
    \/ handle_discord_interactions_extract
    \/ handle_discord_interactions_invoke
    \/ handle_discord_interactions_iterate
    \/ handle_discord_interactions_respond
    \/ handle_discord_interactions_except

\* handle_webhook: if not self.enable_webhook
handle_webhook_gate ==
    /\ cfg.app = "AgentRouter" /\ cfg.channel = "webhook"
    /\ pc = "gate"
    /\ Did(<<"gate">>)
    /\ IF cfg.enabled
       THEN pc' = "parse" /\ UNCHANGED resp
       ELSE Respond(HTTPException(501, "Webhook endpoint is not enabled"))
    /\ UNCHANGED <<kept, cfg, now, req, data, query, stream, parts>>

\* handle_webhook: provider, data = await request.json()
handle_webhook_parse ==
    /\ cfg.app = "AgentRouter" /\ cfg.channel = "webhook"
    /\ pc = "parse"
    /\ LET p == json_loads(req.body)
       IN  IF ~cfg.agent_ok
           THEN Did(<<"get_agent">>) /\ Respond(get_agent_placeholder) /\ UNCHANGED data
           ELSE IF p.exc # ""
           THEN /\ Did(<<"get_agent", "body", "parse">>)
                /\ Respond(Unhandled(p.exc)) /\ UNCHANGED data
           ELSE IF p.kind # "dict"
           THEN /\ Did(<<"get_agent", "body", "parse">>)
                /\ Respond(Unhandled("AttributeError")) /\ UNCHANGED data
           ELSE /\ Did(<<"get_agent", "body", "parse">>)
                /\ data' = p.d
                /\ pc' = "extract"
                /\ UNCHANGED resp
    /\ UNCHANGED <<kept, cfg, now, req, query, stream, parts>>

\* handle_webhook: message, user_id, session_id; if not message
handle_webhook_extract ==
    /\ cfg.app = "AgentRouter" /\ cfg.channel = "webhook"
    /\ pc = "extract"
    /\ Did(<<"extract">>)
    /\ LET message == Get(data, "message", Str(""))
       IN  IF ~Truthy(message)
           THEN Respond(HTTPException(400, "Message is required")) /\ UNCHANGED query
           ELSE /\ query' = [message |-> message,
                             user_id |-> Get(data, "user_id", None),
                             session_id |-> Get(data, "session_id", None)]
                /\ pc' = "invoke"
                /\ UNCHANGED resp
    /\ UNCHANGED <<kept, cfg, now, req, data, stream, parts>>

\* handle_webhook: for event in agent.stream_query(message=..., user_id=..., session_id=...)
handle_webhook_invoke ==
    /\ cfg.app = "AgentRouter" /\ cfg.channel = "webhook"
    /\ StreamQuery

handle_webhook_iterate ==
    /\ cfg.app = "AgentRouter" /\ cfg.channel = "webhook"
    /\ StreamNext

\* handle_webhook: JSONResponse {"response": ..., "session_id": ...}
handle_webhook_respond ==
    /\ cfg.app = "AgentRouter" /\ cfg.channel = "webhook"
    /\ StreamExhausted
    /\ Did(<<"translate">>)
    /\ Respond(WebhookResponse(Join(parts), query.session_id))
    /\ UNCHANGED <<kept, cfg, now, req, data, query, stream, parts>>

\* handle_webhook: except Exception as e: raise HTTPException(500, str(e))
handle_webhook_except ==
    /\ cfg.app = "AgentRouter" /\ cfg.channel = "webhook"
    /\ StreamRaised
    /\ Did(<<"except">>)
    /\ Respond(HTTPException(500, StreamError(stream)))
    /\ UNCHANGED <<kept, cfg, now, req, data, query, stream, parts>>

handle_webhook ==
    \/ handle_webhook_gate
    \/ handle_webhook_parse
    \/ handle_webhook_extract
    \/ handle_webhook_invoke
    \/ handle_webhook_iterate
    \/ handle_webhook_respond
    \/ handle_webhook_except


(***************************************************************************)
(* core/router.py build_router with integrations/slack.py and discord.py   *)
(***************************************************************************)
AgentReply == "Agent reply"

\* create_slack_handler.handle_slack_events: body, headers, verify_slack_signature
create_slack_handler_verify ==
    /\ cfg.app = "build_router" /\ cfg.channel = "slack"
    /\ pc = "verify"
    /\ LET v == verify_slack_signature(cfg.secret, req.body, req.ts, req.sig, now)
       IN  IF v.exc # ""
           THEN Did(<<"body">>) /\ Respond(Unhandled(v.exc))
           ELSE IF ~v.ok
           THEN /\ Did(<<"body">>)
                /\ Respond(HTTPException(400, "Invalid request signature"))
           ELSE Did(<<"body", "verified">>) /\ pc' = "parse" /\ UNCHANGED resp
    /\ UNCHANGED <<kept, cfg, now, req, data, query, stream, parts>>

\* create_slack_handler.handle_slack_events: parse, answer a URL verification
create_slack_handler_parse ==
    /\ cfg.app = "build_router" /\ cfg.channel = "slack"
    /\ pc = "parse"
    /\ Did(<<"parse">>)
    /\ LET p == SlackPayload(req)
       IN  IF p.exc # ""
           THEN Respond(Unhandled(p.exc)) /\ UNCHANGED data
           ELSE IF p.kind # "dict"
           THEN Respond(Unhandled("AttributeError")) /\ UNCHANGED data
           ELSE IF Get(p.d, "type", None) = Str("url_verification")
           THEN /\ Respond(PlainTextResponse(Join(<<Get(p.d, "challenge", Str(""))[2]>>)))
                /\ data' = p.d
           ELSE data' = p.d /\ pc' = "invoke" /\ UNCHANGED resp
    /\ UNCHANGED <<kept, cfg, now, req, query, stream, parts>>

\* create_slack_handler.handle_slack_events: response = await agent.handle_slack(data)
create_slack_handler_agent ==
    /\ cfg.app = "build_router" /\ cfg.channel = "slack"
    /\ pc = "invoke"
    /\ \E raises \in BOOLEAN :
          IF raises
          THEN Did(<<"handle_slack", "except">>) /\ Respond(HTTPException(500, AgentError))
          ELSE Did(<<"handle_slack">>) /\ Respond(PlainTextResponse(<<AgentReply>>))
    /\ UNCHANGED <<kept, cfg, now, req, data, query, stream, parts>>

\* create_discord_handler.handle_discord_interactions: headers, body,
\* verify_discord_signature
create_discord_handler_verify ==
    /\ cfg.app = "build_router" /\ cfg.channel = "discord"
    /\ pc = "verify"
    /\ LET v == verify_discord_signature(cfg.public_key, req.dsig, req.ts, req.body,
                                         cfg.nacl)
       IN  IF v.exc # ""
           THEN Did(<<"body">>) /\ Respond(Unhandled(v.exc))
           ELSE IF ~v.ok
           THEN /\ Did(<<"body">>)
                /\ Respond(HTTPException(401, "Invalid request signature"))
           ELSE Did(<<"body", "verified">>) /\ pc' = "parse" /\ UNCHANGED resp
    /\ UNCHANGED <<kept, cfg, now, req, data, query, stream, parts>>

\* create_discord_handler.handle_discord_interactions: parse, answer PING
create_discord_handler_parse ==
    /\ cfg.app = "build_router" /\ cfg.channel = "discord"
    /\ pc = "parse"
    /\ Did(<<"parse">>)
    /\ LET p == json_loads(req.body)
       IN  IF p.exc # ""
           THEN Respond(Unhandled(p.exc)) /\ UNCHANGED data
           ELSE IF p.kind # "dict"
           THEN Respond(Unhandled("AttributeError")) /\ UNCHANGED data
           ELSE IF IsPing(p.d)
           THEN Respond(PongResponse) /\ data' = p.d
           ELSE data' = p.d /\ pc' = "invoke" /\ UNCHANGED resp
    /\ UNCHANGED <<kept, cfg, now, req, query, stream, parts>>

\* create_discord_handler.handle_discord_interactions:
\* response = await agent.handle_discord(interaction)
create_discord_handler_agent ==
    /\ cfg.app = "build_router" /\ cfg.channel = "discord"
    /\ pc = "invoke"
    /\ \E raises \in BOOLEAN :
          IF raises
          THEN Did(<<"handle_discord", "except">>) /\ Respond(HTTPException(500, AgentError))
          ELSE Did(<<"handle_discord">>) /\ Respond(InteractionResponse(<<AgentReply>>))
    /\ UNCHANGED <<kept, cfg, now, req, data, query, stream, parts>>

\* build_router.handle_webhook: request.json() and agent.handle_webhook(data)
\* inside one try; any exception becomes HTTP 500 with its text
build_router_handle_webhook ==
    /\ cfg.app = "build_router" /\ cfg.channel = "webhook"
    /\ pc = "verify"
    /\ LET p == json_loads(req.body)
       IN  IF p.exc # ""
           THEN /\ Did(<<"body", "parse", "except">>)
                /\ Respond(HTTPException(500, p.exc))
                /\ UNCHANGED data
           ELSE /\ data' = p.d
                /\ \E raises \in BOOLEAN :
                      IF raises
                      THEN /\ Did(<<"body", "parse", "handle_webhook", "except">>)
                           /\ Respond(HTTPException(500, AgentError))
                      ELSE /\ Did(<<"body", "parse", "handle_webhook">>)
                           /\ Respond(AgentResponseDump(AgentReply))
    /\ UNCHANGED <<kept, cfg, now, req, query, stream, parts>>

build_router ==
    \/ create_slack_handler_verify
    \/ create_slack_handler_parse
    \/ create_slack_handler_agent
    \/ create_discord_handler_verify
    \/ create_discord_handler_parse
    \/ create_discord_handler_agent
    \/ build_router_handle_webhook

(***************************************************************************)
(* routers/*.py gated by dependencies.py                                   *)
(***************************************************************************)
\* the route decorator's dependency runs before the endpoint's parameters
CheckEnabled(channel, detail) ==
    /\ cfg.app = "routers" /\ cfg.channel = channel
    /\ pc = "dependencies"
    /\ Did(<<"gate">>)
    /\ IF cfg.enabled
       THEN pc' = "endpoint" /\ UNCHANGED resp
       ELSE Respond(HTTPException(404, detail))
    /\ UNCHANGED <<kept, cfg, now, req, data, query, stream, parts>>

\* dependencies.py check_slack_enabled
check_slack_enabled == CheckEnabled("slack", "Slack integration is not enabled")

\* dependencies.py check_discord_enabled
check_discord_enabled == CheckEnabled("discord", "Discord integration is not enabled")

\* dependencies.py check_webhook_enabled
check_webhook_enabled == CheckEnabled("webhook", "Webhook endpoint is not enabled")

\* routers/slack.py, discord.py, webhook.py: the Agent parameter is resolved,
\* then the endpoint answers {"status": "ok", "platform": ...}
routers_endpoint ==
    /\ cfg.app = "routers"
    /\ pc = "endpoint"
    /\ Did(<<"get_agent">>)
    /\ IF cfg.agent_ok
       THEN Respond(StatusResponse(cfg.channel))
       ELSE Respond(get_agent_placeholder)
    /\ UNCHANGED <<kept, cfg, now, req, data, query, stream, parts>>

routers ==
    \/ check_slack_enabled
    \/ check_discord_enabled
    \/ check_webhook_enabled
    \/ routers_endpoint

(***************************************************************************)
(* core/security.py create_platform_signature_verifier                     *)
(***************************************************************************)
\* check_rate_limit as the first dependency of a route
check_rate_limit ==
    /\ cfg.app = "secured"
    /\ pc = "dependencies"
    /\ IF ~cfg.rate_limit
       THEN /\ Did(<<"rate_limit_flag">>)
            /\ pc' = "verify"
            /\ UNCHANGED <<resp, limiterVars>>
       ELSE /\ RateLimiter_check_rate_limit(req.rate_limit_key)
            /\ IF call'.ok
               THEN /\ Did(<<"rate_limit_flag", "rate_limit">>)
                    /\ pc' = "verify"
                    /\ UNCHANGED resp
               ELSE /\ Did(<<"rate_limit_flag", "rate_limit">>)
                    /\ Respond(HTTPException(429, "Rate limit exceeded. Please try again later."))
    /\ UNCHANGED <<library, last, cfg, now, req, data, query, stream, parts>>

\* verify_platform_signature as the dependency of a route
verify_platform_signature ==
    /\ cfg.app = "secured"
    /\ pc = "verify"
    /\ IF ~cfg.verify
       THEN Did(<<"verify_flag">>) /\ pc' = "endpoint" /\ UNCHANGED resp
       ELSE IF ~req.xsig.present
       THEN /\ Did(<<"verify_flag", "header">>)
            /\ Respond(HTTPException(401, "slack signature header missing"))
       ELSE IF cfg.secret = ""
       THEN /\ Did(<<"verify_flag", "header", "secret">>)
            /\ Respond(HTTPException(500, "slack signing secret not configured"))
       ELSE IF ~verify_signature(cfg.secret, req.xsig, req.body, Tolerance, now)
       THEN /\ Did(<<"verify_flag", "header", "secret", "body">>)
            /\ Respond(HTTPException(401, "Invalid signature"))
       ELSE /\ Did(<<"verify_flag", "header", "secret", "body", "verified">>)
            /\ pc' = "endpoint"
            /\ UNCHANGED resp
    /\ UNCHANGED <<kept, cfg, now, req, data, query, stream, parts>>

\* the route behind the verifier
secured_endpoint ==
    /\ cfg.app = "secured"
    /\ pc = "endpoint"
    /\ Did(<<"endpoint">>)
    /\ Respond(StatusResponse(cfg.channel))
    /\ UNCHANGED <<kept, cfg, now, req, data, query, stream, parts>>

secured ==
    \/ check_rate_limit
    \/ verify_platform_signature
    \/ secured_endpoint

Next ==
    \/ Receive
    \/ Finish
    \/ AgentRouter_dependencies
    \/ handle_slack_events
    \/ handle_discord_interactions
    \/ handle_webhook
    \/ build_router
    \/ routers
    \/ secured

Spec == Init /\ [][Next]_vars

\* what the server does for a request it has accepted
Handle ==
    \/ Finish
    \/ AgentRouter_dependencies
    \/ handle_slack_events
    \/ handle_discord_interactions
    \/ handle_webhook
    \/ build_router
    \/ routers
    \/ secured

\* the event loop runs an accepted request's handler until it returns or raises
FairSpec == Spec /\ WF_vars(Handle)

(***************************************************************************)
(* agents/vertexai/dependencies.py: _get_cached_vertex_ai_engine           *)
(***************************************************************************)
\* settings.is_vertexai_enabled() and whether google-cloud-aiplatform imports
Envs == [enabled : BOOLEAN, sdk : BOOLEAN]

\* how many engines agent_engines.list(filter=...) finds
Listings == 0..2

\* lru_cache looks the key up: a hit returns the stored value, a miss goes on to
\* call the wrapped function with no lock held
lru_cache_lookup(t) ==
    /\ caller[t].at = "idle"
    /\ caller' = [caller EXCEPT ![t] =
            IF engine # NoEngine
            THEN [at |-> "returned", got |-> engine, exc |-> ""]
            ELSE [at |-> "constructing", got |-> NoEngine, exc |-> ""]]
    /\ UNCHANGED <<env, engine, built>>
    /\ UNCHANGED notEngine

\* the body of _get_cached_vertex_ai_engine
_get_cached_vertex_ai_engine(t) ==
    /\ caller[t].at = "constructing"
    /\ \E apps \in Listings :
          IF ~env.enabled
          THEN /\ caller' = [caller EXCEPT ![t] = [at |-> "raised", got |-> NoEngine, exc |-> "RuntimeError"]]
               /\ UNCHANGED built
          ELSE IF ~env.sdk
          THEN /\ caller' = [caller EXCEPT ![t] = [at |-> "raised", got |-> NoEngine, exc |-> "ImportError"]]
               /\ UNCHANGED built
          ELSE IF apps # 1
          THEN /\ caller' = [caller EXCEPT ![t] = [at |-> "raised", got |-> NoEngine, exc |-> "ValueError"]]
               /\ UNCHANGED built
          ELSE /\ built' = built + 1
               /\ caller' = [caller EXCEPT ![t] = [at |-> "constructed", got |-> built + 1, exc |-> ""]]
    /\ UNCHANGED <<env, engine>>
    /\ UNCHANGED notEngine

\* lru_cache stores the result unless the key was added meanwhile, and returns
\* the result of this call
lru_cache_store(t) ==
    /\ caller[t].at = "constructed"
    /\ engine' = IF engine = NoEngine THEN caller[t].got ELSE engine
    /\ caller' = [caller EXCEPT ![t].at = "returned"]
    /\ UNCHANGED <<env, built>>
    /\ UNCHANGED notEngine

\* the caller has its answer and may ask again on a later request
get_vertex_ai_agent_engine_done(t) ==
    /\ caller[t].at \in {"returned", "raised"}
    /\ caller' = [caller EXCEPT ![t] = NotCalling]
    /\ UNCHANGED <<env, engine, built>>
    /\ UNCHANGED notEngine

InitEngine ==
    /\ Unrouted
    /\ RateLimiter
    /\ SlackUnused
    /\ AdapterUnused
    /\ CheckersIdle
    /\ ResourceManager
    /\ WebhookUnused
    /\ ConversationManager
    /\ env \in Envs
    /\ engine = NoEngine
    /\ built = 0
    /\ caller = [t \in Threads |-> NotCalling]

NextEngine ==
    \E t \in Threads :
        \/ lru_cache_lookup(t)
        \/ _get_cached_vertex_ai_engine(t)
        \/ lru_cache_store(t)
        \/ get_vertex_ai_agent_engine_done(t)

SpecEngine == InitEngine /\ [][NextEngine]_vars

(***************************************************************************)
(* core/security.py: RateLimiter                                           *)
(***************************************************************************)
\* a caller asks the limiter about a key
check_rate_limit_call ==
    /\ \E key \in Keys : RateLimiter_check_rate_limit(key)
    /\ UNCHANGED now
    /\ UNCHANGED notLimiter

\* a caller resets one key, or all with None or an empty key
reset_call ==
    /\ \E key \in Keys \cup {""} : RateLimiter_reset(key)
    /\ UNCHANGED now
    /\ UNCHANGED notLimiter

\* time.time() moves on by half a window
Tick ==
    /\ now + Window \div 2 <= Now0 + MaxElapsed
    /\ now' = now + Window \div 2
    /\ UNCHANGED limiterVars
    /\ UNCHANGED notLimiter

InitLimiter ==
    /\ Unrouted
    /\ RateLimiter
    /\ Unused

NextLimiter ==
    \/ check_rate_limit_call
    \/ reset_call
    \/ Tick

SpecLimiter == InitLimiter /\ [][NextLimiter]_vars

(***************************************************************************)
(* core/handlers.py: WebhookEventHandler                                   *)
(***************************************************************************)
\* process_event giving up one attempt early
process_event_early(e, q, raises, by) ==
    LET retry_count == retry_counts[e] IN
    /\ event_queue' = deque_append(event_queue, e, EventQueueMaxlen)
    /\ processed_count' = processed_count + 1
    /\ IF ~raises
       THEN /\ result' = [id |-> e, status |-> "success", retry_count |-> retry_count, by |-> by]
            /\ succeeded' = succeeded \cup {e}
            /\ retry_queue' = q
            /\ UNCHANGED <<retry_counts, failed_events, queued>>
       ELSE IF retry_count + 1 < RetryCount
       THEN /\ retry_counts' = [retry_counts EXCEPT ![e] = retry_count + 1]
            /\ retry_queue' = deque_append(q, e, RetryQueueMaxlen)
            /\ queued' = queued \cup {e}
            /\ result' = [id |-> e, status |-> "retry", retry_count |-> retry_count + 1, by |-> by]
            /\ UNCHANGED <<failed_events, succeeded>>
       ELSE /\ failed_events' = Append(failed_events, e)
            /\ retry_queue' = q
            /\ result' = [id |-> e, status |-> "failed", retry_count |-> retry_count, by |-> by]
            /\ UNCHANGED <<retry_counts, queued, succeeded>>

\* WebhookEventHandler.process_event(event) for the event dict e, popped from
\* the queue q or handed in by a caller, with an agent that raises or not
process_event(e, q, raises, by) ==
    LET retry_count == retry_counts[e] IN
    /\ event_queue' = deque_append(event_queue, e, EventQueueMaxlen)
    /\ processed_count' = processed_count + 1
    /\ IF ~raises
       THEN /\ result' = [id |-> e, status |-> "success", retry_count |-> retry_count, by |-> by]
            /\ succeeded' = succeeded \cup {e}
            /\ retry_queue' = q
            /\ UNCHANGED <<retry_counts, failed_events, queued>>
       ELSE IF retry_count < RetryCount
       THEN /\ retry_counts' = [retry_counts EXCEPT ![e] = retry_count + 1]
            /\ retry_queue' = deque_append(q, e, RetryQueueMaxlen)
            /\ queued' = queued \cup {e}
            /\ result' = [id |-> e, status |-> "retry", retry_count |-> retry_count + 1, by |-> by]
            /\ UNCHANGED <<failed_events, succeeded>>
       ELSE /\ failed_events' = Append(failed_events, e)
            /\ retry_queue' = q
            /\ result' = [id |-> e, status |-> "failed", retry_count |-> retry_count, by |-> by]
            /\ UNCHANGED <<retry_counts, queued, succeeded>>

\* a caller hands a new event to process_event
process_event_call ==
    /\ frame.at # "running"
    /\ \E e \in inbox, raises \in BOOLEAN :
          /\ process_event(e, retry_queue, raises, "caller")
          /\ inbox' = inbox \ {e}
    /\ frame' = NoFrame
    /\ UNCHANGED notWebhook

\* process_retry_queue is called
process_retry_queue_call ==
    /\ frame.at # "running"
    /\ frame' = [at |-> "running", processed |-> 0, failed |-> 0]
    /\ UNCHANGED <<retry_counts, inbox, retry_queue, failed_events, event_queue,
                   processed_count, result, queued, succeeded>>
    /\ UNCHANGED notWebhook

\* one turn of its while loop
process_retry_queue_loop ==
    /\ frame.at = "running"
    /\ retry_queue # <<>>
    /\ \E raises \in BOOLEAN :
          process_event(Head(retry_queue), Tail(retry_queue), raises, "retry_queue")
    /\ frame' = IF result'.status = "success"
                THEN [frame EXCEPT !.processed = @ + 1]
                ELSE [frame EXCEPT !.failed = @ + 1]
    /\ UNCHANGED inbox
    /\ UNCHANGED notWebhook

\* the queue is empty: it returns its counts
process_retry_queue_return ==
    /\ frame.at = "running"
    /\ retry_queue = <<>>
    /\ frame' = [frame EXCEPT !.at = "returned"]
    /\ UNCHANGED <<retry_counts, inbox, retry_queue, failed_events, event_queue,
                   processed_count, result, queued, succeeded>>
    /\ UNCHANGED notWebhook

process_retry_queue ==
    \/ process_retry_queue_call
    \/ process_retry_queue_loop
    \/ process_retry_queue_return

\* the events callers will hand in carry any _retry_count, or none (0)
InitWebhook ==
    /\ Unrouted
    /\ RateLimiter
    /\ SlackUnused
    /\ AdapterUnused
    /\ CheckersIdle
    /\ ResourceManager
    /\ EngineUnused
    /\ ConversationManager
    /\ retry_counts \in [EventIds -> 0..(RetryCount + 1)]
    /\ inbox = EventIds
    /\ WebhookEventHandler

NextWebhook ==
    \/ process_event_call
    \/ process_retry_queue

SpecWebhook == InitWebhook /\ [][NextWebhook]_vars

\* a coroutine that was started runs its loop until it returns
FairSpecWebhook ==
    SpecWebhook /\ WF_vars(process_retry_queue_loop \/ process_retry_queue_return)

(***************************************************************************)
(* core/handlers.py: ConversationManager                                   *)
(***************************************************************************)
\* the n-th message made, with its role
Message(role, n) == [role |-> role, n |-> n]

\* history[-n:] for n > 0
LastN(history, n) ==
    IF Len(history) <= n THEN history
    ELSE SubSeq(history, Len(history) - n + 1, Len(history))

\* the history of a conversation, empty if there is none
History(convs, conversation_id) ==
    IF conversation_id \in DOMAIN convs THEN convs[conversation_id] ELSE <<>>

\* add_message trimming to the oldest messages
add_message_oldest(convs, conversation_id, m) ==
    LET appended == Append(History(convs, conversation_id), m)
        trimmed == IF Len(appended) > MaxHistoryLength
                   THEN SubSeq(appended, 1, MaxHistoryLength)
                   ELSE appended
    IN  [c \in DOMAIN convs \cup {conversation_id} |->
            IF c = conversation_id THEN trimmed ELSE convs[c]]

\* conversations after add_message(conversation_id, role, ...) made message m
add_message(convs, conversation_id, m) ==
    LET appended == Append(History(convs, conversation_id), m)
        trimmed == IF Len(appended) > MaxHistoryLength
                   THEN LastN(appended, MaxHistoryLength)
                   ELSE appended
    IN  [c \in DOMAIN convs \cup {conversation_id} |->
            IF c = conversation_id THEN trimmed ELSE convs[c]]

\* a caller adds a message
add_message_call ==
    /\ processing.at # "agent"
    /\ serial < MaxMessages
    /\ \E conversation_id \in ConversationIds, role \in {"user", "assistant"} :
          LET m == Message(role, serial + 1) IN
          /\ conversations' = add_message(conversations, conversation_id, m)
          /\ added' = [added EXCEPT ![conversation_id] = Append(@, m)]
    /\ serial' = serial + 1
    /\ processing' = NotProcessing
    /\ UNCHANGED notConversation

\* get_history(conversation_id, limit) for a limit that is not 0
get_history(convs, conversation_id, limit) ==
    LastN(History(convs, conversation_id), limit)

\* process_message is called: the user's message is added, the history is
\* read and the agent is asked
process_message_call ==
    /\ processing.at # "agent"
    /\ serial + 1 < MaxMessages
    /\ \E conversation_id \in ConversationIds, s \in Streams :
          LET user == Message("user", serial + 1) IN
          /\ conversations' = add_message(conversations, conversation_id, user)
          /\ added' = [added EXCEPT ![conversation_id] = Append(@, user)]
          /\ processing' =
                [NotProcessing EXCEPT
                    !.at = "agent",
                    !.conversation_id = conversation_id,
                    !.user = serial + 1,
                    !.stream = s,
                    !.history = get_history(conversations', conversation_id, HistoryLimit)]
    /\ serial' = serial + 1
    /\ UNCHANGED notConversation

\* one turn of the loop over the agent's stream: a str chunk is kept
process_message_chunk ==
    /\ processing.at = "agent"
    /\ ~processing.stream.aio
    /\ processing.stream.next <= Len(processing.stream.frags)
    /\ LET chunk == processing.stream.frags[processing.stream.next] IN
       processing' =
          [processing EXCEPT
              !.stream.next = @ + 1,
              !.response_parts = IF chunk.kind = "str" THEN Append(@, chunk.content) ELSE @]
    /\ UNCHANGED <<conversations, added, serial>>
    /\ UNCHANGED notConversation

\* the end of the loop with the reply added even when the stream raised
process_message_end_always ==
    /\ processing.at = "agent"
    /\ processing.stream.aio \/ processing.stream.next > Len(processing.stream.frags)
    /\ LET conversation_id == processing.conversation_id
           assistant == Message("assistant", serial + 1)
       IN  /\ conversations' = add_message(conversations, conversation_id, assistant)
           /\ added' = [added EXCEPT ![conversation_id] = Append(@, assistant)]
           /\ serial' = serial + 1
           /\ processing' = [processing EXCEPT
                                !.at = IF processing.stream.aio \/ processing.stream.raises
                                       THEN "raised" ELSE "returned",
                                !.assistant = serial + 1]
    /\ UNCHANGED notConversation

\* the stream is used up or raises: the exception leaves process_message, or
\* the joined reply is added and returned
process_message_end ==
    /\ processing.at = "agent"
    /\ processing.stream.aio \/ processing.stream.next > Len(processing.stream.frags)
    /\ IF processing.stream.aio \/ processing.stream.raises
       THEN /\ processing' = [processing EXCEPT !.at = "raised"]
            /\ UNCHANGED <<conversations, added, serial>>
       ELSE LET conversation_id == processing.conversation_id
                assistant == Message("assistant", serial + 1)
            IN  /\ conversations' = add_message(conversations, conversation_id, assistant)
                /\ added' = [added EXCEPT ![conversation_id] = Append(@, assistant)]
                /\ serial' = serial + 1
                /\ processing' = [processing EXCEPT !.at = "returned",
                                                    !.assistant = serial + 1]
    /\ UNCHANGED notConversation

\* process_message has no await: nothing else runs on the manager between
\* its steps
process_message ==
    \/ process_message_call
    \/ process_message_chunk
    \/ process_message_end

\* clear_conversation: self.conversations.pop(conversation_id, None)
clear_conversation ==
    /\ processing.at # "agent"
    /\ \E conversation_id \in ConversationIds :
          /\ conversations' = [c \in DOMAIN conversations \ {conversation_id} |->
                                    conversations[c]]
          /\ added' = [added EXCEPT ![conversation_id] = <<>>]
    /\ processing' = NotProcessing
    /\ UNCHANGED serial
    /\ UNCHANGED notConversation

InitConversation ==
    /\ Unrouted
    /\ RateLimiter
    /\ SlackUnused
    /\ AdapterUnused
    /\ CheckersIdle
    /\ ResourceManager
    /\ EngineUnused
    /\ WebhookUnused
    /\ ConversationManager

NextConversation ==
    \/ add_message_call
    \/ process_message
    \/ clear_conversation

SpecConversation == InitConversation /\ [][NextConversation]_vars

(***************************************************************************)
(* core/resources.py: ResourceManager                                      *)
(***************************************************************************)
\* a resource: whether register is given a cleanup_callback for it, and
\* whether it has a cleanup or a close method
ResourceKinds == [callback : BOOLEAN, cleanup : BOOLEAN, close : BOOLEAN]

\* the callback of the n-th registered resource
Callback(n, which) == [resource |-> n, which |-> which]

\* ResourceManager.register(resource, cleanup_callback)
register ==
    /\ cleaning.at # "running"
    /\ Len(resources) < MaxResources
    /\ \E resource \in ResourceKinds :
          LET n == Len(resources) + 1 IN
          /\ resources' = Append(resources, resource)
          /\ cleanup_callbacks' =
                IF resource.callback
                THEN Append(cleanup_callbacks, Callback(n, "cleanup_callback"))
                ELSE IF resource.cleanup
                THEN Append(cleanup_callbacks, Callback(n, "cleanup"))
                ELSE IF resource.close
                THEN Append(cleanup_callbacks, Callback(n, "close"))
                ELSE cleanup_callbacks
    /\ cleaning' = [at |-> "idle", i |-> 0]
    /\ UNCHANGED invoked
    /\ UNCHANGED notResource

\* cleanup() is called: reversed(self.cleanup_callbacks) starts at the end
cleanup_call ==
    /\ cleaning.at # "running"
    /\ cleaning' = [at |-> "running", i |-> Len(cleanup_callbacks)]
    /\ invoked' = <<>>
    /\ UNCHANGED <<resources, cleanup_callbacks>>
    /\ UNCHANGED notResource

\* the loop of cleanup with no except clause
cleanup_loop_raising ==
    /\ cleaning.at = "running"
    /\ cleaning.i > 0
    /\ \E raises \in BOOLEAN :
          /\ invoked' = Append(invoked, [callback |-> cleanup_callbacks[cleaning.i],
                                         raised |-> raises])
          /\ cleaning' = IF raises
                         THEN [at |-> "raised", i |-> cleaning.i]
                         ELSE [cleaning EXCEPT !.i = @ - 1]
    /\ UNCHANGED <<resources, cleanup_callbacks>>
    /\ UNCHANGED notResource

\* one turn of the loop: the callback returns or raises
cleanup_loop ==
    /\ cleaning.at = "running"
    /\ cleaning.i > 0
    /\ \E raises \in BOOLEAN :
          /\ invoked' = Append(invoked, [callback |-> cleanup_callbacks[cleaning.i],
                                         raised |-> raises])
          /\ cleaning' = [cleaning EXCEPT !.i = @ - 1]
    /\ UNCHANGED <<resources, cleanup_callbacks>>
    /\ UNCHANGED notResource

\* the iterator is exhausted: cleanup() returns
cleanup_return ==
    /\ cleaning.at = "running"
    /\ cleaning.i = 0
    /\ cleaning' = [cleaning EXCEPT !.at = "returned"]
    /\ UNCHANGED <<resources, cleanup_callbacks, invoked>>
    /\ UNCHANGED notResource

cleanup ==
    \/ cleanup_call
    \/ cleanup_loop
    \/ cleanup_return

InitResource ==
    /\ Unrouted
    /\ RateLimiter
    /\ SlackUnused
    /\ AdapterUnused
    /\ CheckersIdle
    /\ EngineUnused
    /\ WebhookUnused
    /\ ConversationManager
    /\ ResourceManager

NextResource ==
    \/ register
    \/ cleanup

SpecResource == InitResource /\ [][NextResource]_vars

\* a call that was made runs until it returns
FairSpecResource == SpecResource /\ WF_vars(cleanup_loop \/ cleanup_return)

(***************************************************************************)
(* integrations/slack/dependencies.py: get_message, get_app_mention;       *)
(* core/handlers.py: SlackEventHandler                                     *)
(***************************************************************************)
\* words a text is made of
Words == {"hello", Aside, BotMention, OtherMention}

Texts == {Text(w) : w \in SeqsUpTo(Words, 2)} \cup {NullText}

\* the message events Slack delivers
Channel1 == Str("C123")
Channel2 == Str("C456")
Ts1 == Str("1234567890.000000")
Ts2 == Str("1234567899.000000")
User1 == Str("U456")
User2 == Str("U789")

SlackEvents ==
    [bot_id : {None, Str(""), Str("B1")},
     subtype : {None, Str("bot_message")},
     thread_ts : {None, Str(""), Ts1},
     text : Texts,
     channel : {Channel1},
     ts : {Ts2},
     user : {User1}]

\* texts of the messages in a thread
ThreadTexts == {Text(<<"hello">>), Text(<<BotMention, "hello">>), NullText}

\* what conversations_replies and auth_test do (return, raise, or return
\* without the expected key) and what the agent does
SlackWorlds ==
    [replies : {"ok", "raises", "no_messages_key"},
     messages : SeqsUpTo(ThreadTexts, 2),
     auth_test : {"ok", "raises"},
     agent : {EventData(<<"A">>, FALSE), EventData(<<>>, FALSE), EventData(<<>>, TRUE)}]

\* needle in text
In(needle, text) == \E i \in DOMAIN text.words : text.words[i] = needle

\* the loop over the thread's messages: "found", "missing", or the TypeError of
\* looking into a null text before any mention was found
RECURSIVE bot_mentioned_in_thread(_)
bot_mentioned_in_thread(messages) ==
    IF messages = <<>> THEN "missing"
    ELSE IF Head(messages).null THEN "TypeError"
    ELSE IF In(BotMention, Head(messages)) THEN "found"
    ELSE bot_mentioned_in_thread(Tail(messages))

Called(c) == slack_run' = [slack_run EXCEPT !.at = "done", !.calls = @ \o c]

\* an event_data is {"content": {"parts": [{"text": "A"}]}}, the same with "B"
\* or with "" ("blank"), a dict with no "content" ("other"), or one whose
\* "parts" is an empty list ("broken")
EventDatas == {"A", "B", "blank", "other", "broken"}

\* what the loop body adds to full_response_text for one event_data
PartText(event_data) ==
    IF event_data \in {"A", "B"} THEN <<event_data>> ELSE <<>>

\* the loop over agent.stream_query(...): the text gathered, and the exception
\* that ended the loop, if any
RECURSIVE Gather(_, _, _)
Gather(events, raises, full_response_text) ==
    IF events = <<>>
    THEN [text |-> full_response_text, exc |-> IF raises THEN AgentError ELSE ""]
    ELSE IF Head(events) = "broken"
    THEN [text |-> full_response_text, exc |-> "IndexError"]
    ELSE Gather(Tail(events), raises, full_response_text \o PartText(Head(events)))

\* event.get(key, default), None standing for a key the event does not have
event_get(v, default) == IF v = None THEN default ELSE v

\* str() of a value inside an f-string
Format(v) == IF v = None THEN "None" ELSE v[2]

\* f"{channel}_{thread_ts}"
thread_key(channel, thread_ts) == <<Format(channel), "_", Format(thread_ts)>>

\* a stream_query call and a say call
Ask(user_id, session_id) == [user_id |-> user_id, session_id |-> session_id]
Say(text, thread_ts) == [text |-> text, thread_ts |-> thread_ts]

\* Slack delivers a message event to the handler
message_event ==
    /\ slack_run.at = "idle"
    /\ slack_event' \in SlackEvents
    /\ slack_world' \in SlackWorlds
    /\ slack_run' = [NoSlackRun EXCEPT !.at = "filter", !.handler = "message"]
    /\ UNCHANGED <<slack_handler, notSlack>>

\* message(): bot messages and messages outside a thread are skipped
message_filter ==
    /\ slack_run.at = "filter"
    /\ IF Truthy(slack_event.bot_id) \/ Truthy(slack_event.subtype)
       THEN slack_run' = [slack_run EXCEPT !.at = "done"]
       ELSE IF ~Truthy(slack_event.thread_ts)
       THEN slack_run' = [slack_run EXCEPT !.at = "done"]
       ELSE slack_run' = [slack_run EXCEPT !.at = "history"]
    /\ UNCHANGED <<slack_event, slack_world>>
    /\ UNCHANGED <<slack_handler, notSlack>>

\* the history step without the test for an aside
message_history_aside ==
    /\ slack_run.at = "history"
    /\ LET messages == IF slack_world.replies = "ok" THEN slack_world.messages ELSE <<>>
           found == bot_mentioned_in_thread(messages)
       IN  IF slack_world.replies = "raises"
           THEN Called(<<"conversations_replies">>)
           ELSE IF slack_world.auth_test = "raises"
           THEN Called(<<"conversations_replies", "auth_test">>)
           ELSE IF found # "found"
           THEN Called(<<"conversations_replies", "auth_test">>)
           ELSE IF slack_event.text.null
           THEN slack_run' = [slack_run EXCEPT !.at = "done", !.raised = "TypeError",
                                !.calls = @ \o <<"conversations_replies", "auth_test">>]
           ELSE slack_run' = [slack_run EXCEPT !.at = "agent",
                                !.calls = @ \o <<"conversations_replies", "auth_test">>]
    /\ UNCHANGED <<slack_event, slack_world>>
    /\ UNCHANGED <<slack_handler, notSlack>>

\* the thread history is fetched and searched for the bot's mention, then the
\* text is looked at for an aside
message_history ==
    /\ slack_run.at = "history"
    /\ LET messages == IF slack_world.replies = "ok" THEN slack_world.messages ELSE <<>>
           found == bot_mentioned_in_thread(messages)
       IN  IF slack_world.replies = "raises"
           THEN Called(<<"conversations_replies">>)
           ELSE IF slack_world.auth_test = "raises"
           THEN Called(<<"conversations_replies", "auth_test">>)
           ELSE IF found # "found"
           THEN Called(<<"conversations_replies", "auth_test">>)
           ELSE IF slack_event.text.null
           THEN slack_run' = [slack_run EXCEPT !.at = "done", !.raised = "TypeError",
                                !.calls = @ \o <<"conversations_replies", "auth_test">>]
           ELSE IF In(Aside, slack_event.text) /\ ~In(BotMention, slack_event.text)
           THEN Called(<<"conversations_replies", "auth_test">>)
           ELSE slack_run' = [slack_run EXCEPT !.at = "agent",
                                !.calls = @ \o <<"conversations_replies", "auth_test">>]
    /\ UNCHANGED <<slack_event, slack_world>>
    /\ UNCHANGED <<slack_handler, notSlack>>

\* the agent is asked and its text, if any, is said in the thread
message_agent ==
    /\ slack_run.at = "agent"
    /\ LET thread_ts == slack_event.thread_ts
           user_id == thread_ts
           session_id == thread_key(slack_event.channel, thread_ts)
           got == Gather(slack_world.agent.events, slack_world.agent.raises, <<>>)
           asked == [slack_run EXCEPT !.at = "done",
                                      !.calls = Append(@, "stream_query"),
                                      !.asked = Append(@, Ask(user_id, session_id))]
       IN  slack_run' =
              IF got.exc # ""
              THEN [asked EXCEPT !.raised = got.exc]
              ELSE IF got.text # <<>>
              THEN [asked EXCEPT !.calls = Append(@, "say"),
                                 !.said = Append(@, Say(got.text, thread_ts))]
              ELSE asked
    /\ UNCHANGED <<slack_event, slack_world>>
    /\ UNCHANGED <<slack_handler, notSlack>>

\* the handler has returned or raised
message_done ==
    /\ slack_run.at = "done"
    /\ slack_run' = NoSlackRun
    /\ slack_event' = NoSlackEvent
    /\ slack_world' = NoSlackWorld
    /\ UNCHANGED <<slack_handler, notSlack>>

get_message ==
    \/ message_filter
    \/ message_history
    \/ message_agent
    \/ message_done

InitSlack ==
    /\ Unrouted
    /\ RateLimiter
    /\ EngineUnused
    /\ WebhookUnused
    /\ ConversationManager
    /\ ResourceManager
    /\ SlackUnused
    /\ AdapterUnused
    /\ CheckersIdle

NextSlack ==
    \/ message_event
    \/ get_message

SpecSlack == InitSlack /\ [][NextSlack]_vars

(***************************************************************************)
(* integrations/slack/dependencies.py: get_app_mention                     *)
(***************************************************************************)
\* what the agent may yield to a handler
SlackStreams ==
    {EventData(events, raises) : events \in SeqsUpTo(EventDatas, 2), raises \in BOOLEAN}

\* the app_mention events Slack delivers
MentionEvents ==
    [bot_id : {None},
     subtype : {None},
     thread_ts : {None, Str(""), Ts1, Ts2},
     text : {Text(<<BotMention, "hello">>)},
     channel : {Channel1},
     ts : {Ts1, Ts2},
     user : {User1}]

MentionWorlds ==
    [replies : {"raises"}, messages : {<<>>}, auth_test : {"raises"}, agent : SlackStreams]

Fallback == <<"I received your message but couldn't generate a response.">>
ErrorMessage(e) == <<"Sorry, I encountered an error: ", e>>

\* Slack delivers an app_mention event to the handler
mention_event ==
    /\ slack_run.at = "idle"
    /\ slack_event' \in MentionEvents
    /\ slack_world' \in MentionWorlds
    /\ slack_run' = [NoSlackRun EXCEPT !.at = "mention", !.handler = "app_mention"]
    /\ UNCHANGED <<slack_handler, notSlack>>

\* app_mention saying nothing when the agent gave no text
app_mention_quiet ==
    /\ slack_run.at = "mention"
    /\ LET thread_ts == event_get(slack_event.thread_ts, slack_event.ts)
           user_id == thread_ts
           session_id == thread_key(slack_event.channel, thread_ts)
           got == Gather(slack_world.agent.events, slack_world.agent.raises, <<>>)
           asked == [slack_run EXCEPT !.at = "done",
                                      !.calls = Append(@, "stream_query"),
                                      !.asked = Append(@, Ask(user_id, session_id))]
           said(text) == [asked EXCEPT !.calls = Append(@, "say"),
                                       !.said = Append(@, Say(text, thread_ts))]
       IN  slack_run' =
              IF got.exc # "" THEN said(ErrorMessage(got.exc))
              ELSE IF got.text # <<>> THEN said(got.text)
              ELSE asked
    /\ UNCHANGED <<slack_event, slack_world, slack_handler>>
    /\ UNCHANGED notSlack

\* app_mention(event, say, body): the agent is asked inside a try, and say is
\* called with the error, with the text, or with the fallback
app_mention ==
    /\ slack_run.at = "mention"
    /\ LET thread_ts == event_get(slack_event.thread_ts, slack_event.ts)
           user_id == thread_ts
           session_id == thread_key(slack_event.channel, thread_ts)
           got == Gather(slack_world.agent.events, slack_world.agent.raises, <<>>)
           asked == [slack_run EXCEPT !.at = "done",
                                      !.calls = Append(@, "stream_query"),
                                      !.asked = Append(@, Ask(user_id, session_id))]
           said(text) == [asked EXCEPT !.calls = Append(@, "say"),
                                       !.said = Append(@, Say(text, thread_ts))]
       IN  slack_run' =
              IF got.exc # "" THEN said(ErrorMessage(got.exc))
              ELSE IF got.text # <<>> THEN said(got.text)
              ELSE said(Fallback)
    /\ UNCHANGED <<slack_event, slack_world, slack_handler>>
    /\ UNCHANGED notSlack

InitMention == InitSlack

NextMention ==
    \/ mention_event
    \/ app_mention
    \/ message_done

SpecMention == InitMention /\ [][NextMention]_vars

(***************************************************************************)
(* core/handlers.py: SlackEventHandler, next to the two bolt listeners     *)
(***************************************************************************)
\* the events of two threads in two channels: the message that starts a
\* thread, a reply to it, and a message that starts another thread
ThreadEvents ==
    {e \in [bot_id : {None},
            subtype : {None},
            thread_ts : {None, Ts1},
            text : {Text(<<BotMention, "hello">>)},
            channel : {Channel1, Channel2},
            ts : {Ts1, Ts2},
            user : {User1, User2}] :
        e.thread_ts = Ts1 => e.ts = Ts2}

ThreadWorlds ==
    [replies : {"ok"},
     messages : {<<Text(<<BotMention, "hello">>)>>},
     auth_test : {"ok"},
     agent : {EventData(<<"A">>, FALSE), EventData(<<"other">>, FALSE),
              EventData(<<>>, TRUE)}]

\* an event of a thread reaches one of the three handlers
thread_event ==
    /\ slack_run.at = "idle"
    /\ slack_event' \in ThreadEvents
    /\ slack_world' \in ThreadWorlds
    /\ \E handler \in {"app_mention", "message", "SlackEventHandler"} :
          /\ handler = "SlackEventHandler" =>
                slack_handler.processed_count < MaxDeliveries
          /\ slack_run' = [NoSlackRun EXCEPT
                              !.handler = handler,
                              !.at = CASE handler = "app_mention" -> "mention"
                                       [] handler = "message" -> "filter"
                                       [] handler = "SlackEventHandler" -> "process_event"]
    /\ UNCHANGED <<slack_handler, notSlack>>

\* SlackEventHandler.process_event(event): BaseEventHandler.process_event, the
\* thread context, and the agent asked outside any try; "".join raises on a
\* chunk whose "content" is a dict
SlackEventHandler_process_event ==
    /\ slack_run.at = "process_event"
    /\ LET channel == slack_event.channel
           thread_ts == IF Truthy(slack_event.thread_ts) THEN slack_event.thread_ts
                        ELSE slack_event.ts
           user_id == slack_event.user
           key == thread_key(channel, thread_ts)
           entry == [user |-> user_id, text |-> slack_event.text,
                     timestamp |-> slack_event.ts]
           contexts == slack_handler.thread_contexts
           agent == slack_world.agent
           exc == IF \E i \in DOMAIN agent.events : agent.events[i] # "other"
                  THEN "TypeError"
                  ELSE IF agent.raises THEN AgentError ELSE ""
       IN  /\ slack_handler' =
                [event_queue |-> deque_append(slack_handler.event_queue, slack_event,
                                              EventQueueMaxlen),
                 processed_count |-> slack_handler.processed_count + 1,
                 thread_contexts |->
                    [k \in DOMAIN contexts \cup {key} |->
                        (IF k \in DOMAIN contexts THEN contexts[k] ELSE <<>>)
                        \o (IF k = key THEN <<entry>> ELSE <<>>)]]
           /\ slack_run' = [slack_run EXCEPT
                               !.at = "done",
                               !.calls = Append(@, "stream_query"),
                               !.asked = Append(@, Ask(user_id, key)),
                               !.raised = exc]
    /\ UNCHANGED <<slack_event, slack_world>>
    /\ UNCHANGED notSlack

InitThread == InitSlack

NextThread ==
    \/ thread_event
    \/ app_mention
    \/ get_message
    \/ SlackEventHandler_process_event

SpecThread == InitThread /\ [][NextThread]_vars



(***************************************************************************)
(* agents/vertexai/adapter.py: VertexAIAgentAdapter.stream_query           *)
(***************************************************************************)
\* user_id or "default_user"
actual_user_id(user_id) ==
    IF user_id.some /\ user_id.id # <<>> THEN user_id.id ELSE DefaultUser

\* the sessions of all users
AllSessions == UNION {{vertex_sessions[u][i] : i \in DOMAIN vertex_sessions[u]} : u \in EngineUsers}

\* generators that may still create a session (the engine is taken to hold
\* at most MaxSessions)
MayCreate == {t \in Callers : vertex_frames[t].at \in {"list", "create"}}

\* thread t calls stream_query and starts to read the generator
VertexAIAgentAdapter_stream_query_call(t) ==
    /\ vertex_frames[t].at = "idle"
    /\ \E user_id \in {NoId, Id(<<>>), Id(User456)},
          session_id \in {NoId, Id(<<>>), Id(<<"session-123">>)} :
          /\ (session_id = NoId /\ vertex_sessions[actual_user_id(user_id)] = <<>>) =>
                Cardinality(AllSessions) + Cardinality(MayCreate) < MaxSessions
          /\ vertex_frames' = [vertex_frames EXCEPT ![t] =
                [NoVertexFrame EXCEPT
                    !.user_id = user_id,
                    !.session_id = session_id,
                    !.actual = session_id,
                    !.at = IF session_id = NoId THEN "list" ELSE "query"]]
    /\ UNCHANGED vertex_sessions
    /\ UNCHANGED notAdapter

\* the list step creating a session whatever the engine lists
VertexAIAgentAdapter_stream_query_list_anew(t) ==
    /\ vertex_frames[t].at = "list"
    /\ LET user == actual_user_id(vertex_frames[t].user_id)
           existing_sessions == vertex_sessions[user]
           listed == [user_id |-> user, sessions |-> existing_sessions]
       IN  vertex_frames' = [vertex_frames EXCEPT ![t] =
              [@ EXCEPT !.listed = Append(@, listed), !.at = "create"]]
    /\ UNCHANGED vertex_sessions
    /\ UNCHANGED notAdapter

\* session_id is None: list_sessions(user_id=actual_user_id), and the first
\* session listed is taken
VertexAIAgentAdapter_stream_query_list(t) ==
    /\ vertex_frames[t].at = "list"
    /\ LET user == actual_user_id(vertex_frames[t].user_id)
           existing_sessions == vertex_sessions[user]
           listed == [user_id |-> user, sessions |-> existing_sessions]
       IN  vertex_frames' = [vertex_frames EXCEPT ![t] =
              IF existing_sessions # <<>>
              THEN [@ EXCEPT !.listed = Append(@, listed),
                             !.actual = Id(existing_sessions[1]),
                             !.at = "query"]
              ELSE [@ EXCEPT !.listed = Append(@, listed), !.at = "create"]]
    /\ UNCHANGED vertex_sessions
    /\ UNCHANGED notAdapter

\* no session was listed: create_session(user_id=actual_user_id); the engine
\* numbers its sessions
VertexAIAgentAdapter_stream_query_create(t) ==
    /\ vertex_frames[t].at = "create"
    /\ LET user == actual_user_id(vertex_frames[t].user_id)
           new_session == <<"session">> \o str(Cardinality(AllSessions) + 1)
       IN  /\ vertex_sessions' = [vertex_sessions EXCEPT ![user] = Append(@, new_session)]
           /\ vertex_frames' = [vertex_frames EXCEPT ![t] =
                 [@ EXCEPT !.created = Append(@, [user_id |-> user, id |-> new_session]),
                           !.actual = Id(new_session),
                           !.at = "query"]]
    /\ UNCHANGED notAdapter

\* self._agent_engine.stream_query(session_id=session_id, message=message)
VertexAIAgentAdapter_stream_query_query(t) ==
    /\ vertex_frames[t].at = "query"
    /\ vertex_frames' = [vertex_frames EXCEPT ![t] =
          [@ EXCEPT !.queried = Append(@, vertex_frames[t].actual), !.at = "done"]]
    /\ UNCHANGED vertex_sessions
    /\ UNCHANGED notAdapter

\* the generator is exhausted
VertexAIAgentAdapter_stream_query_return(t) ==
    /\ vertex_frames[t].at = "done"
    /\ vertex_frames' = [vertex_frames EXCEPT ![t] = NoVertexFrame]
    /\ UNCHANGED vertex_sessions
    /\ UNCHANGED notAdapter

VertexAIAgentAdapter_stream_query(t) ==
    \/ VertexAIAgentAdapter_stream_query_call(t)
    \/ VertexAIAgentAdapter_stream_query_list(t)
    \/ VertexAIAgentAdapter_stream_query_create(t)
    \/ VertexAIAgentAdapter_stream_query_query(t)
    \/ VertexAIAgentAdapter_stream_query_return(t)

InitAdapter ==
    /\ Unrouted
    /\ RateLimiter
    /\ Unused

NextAdapter == \E t \in Callers : VertexAIAgentAdapter_stream_query(t)

SpecAdapter == InitAdapter /\ [][NextAdapter]_vars

(***************************************************************************)
(* core/security.py: check_rate_limit in the threadpool                    *)
(*                                                                         *)
(* The dependency is a plain def, which FastAPI runs in a worker thread;   *)
(* RateLimiter holds no lock, so the statements of check_rate_limit of     *)
(* several threads interleave.                                             *)
(***************************************************************************)
\* thread t enters check_rate_limit(key) for the client's address:
\* time.time(), and the list comprehension over self.requests[key]
RateLimiter_check_rate_limit_read(t) ==
    /\ checking[t].at = "idle"
    /\ \E key \in {ClientIp} :
          /\ Len(allowed[key]) + Cardinality({u \in Checkers : checking[u].at # "idle"})
                < MaxAdmitted
          /\ checking' = [checking EXCEPT ![t] =
                [at |-> "store", key |-> key, now |-> now,
                 cleaned |-> Recent(requests[key], now)]]
    /\ UNCHANGED <<limiterVars, now>>
    /\ UNCHANGED notChecking

\* self.requests[key] = <the cleaned list>
RateLimiter_check_rate_limit_store(t) ==
    /\ checking[t].at = "store"
    /\ requests' = [requests EXCEPT ![checking[t].key] = checking[t].cleaned]
    /\ checking' = [checking EXCEPT ![t].at = "check"]
    /\ UNCHANGED <<allowed, call, now>>
    /\ UNCHANGED notChecking

\* if len(self.requests[key]) >= self.requests_per_minute: return False
RateLimiter_check_rate_limit_test(t) ==
    /\ checking[t].at = "check"
    /\ IF Len(requests[checking[t].key]) >= RequestsPerMinute
       THEN /\ checking' = [checking EXCEPT ![t] = NotChecking]
            /\ call' = [op |-> "check_rate_limit", key |-> checking[t].key, ok |-> FALSE]
       ELSE /\ checking' = [checking EXCEPT ![t].at = "append"]
            /\ UNCHANGED call
    /\ UNCHANGED <<requests, allowed, now>>
    /\ UNCHANGED notChecking

\* self.requests[key].append(now); return True
RateLimiter_check_rate_limit_append(t) ==
    /\ checking[t].at = "append"
    /\ requests' = [requests EXCEPT ![checking[t].key] = Append(@, checking[t].now)]
    /\ allowed' = [allowed EXCEPT ![checking[t].key] = Append(@, checking[t].now)]
    /\ call' = [op |-> "check_rate_limit", key |-> checking[t].key, ok |-> TRUE]
    /\ checking' = [checking EXCEPT ![t] = NotChecking]
    /\ UNCHANGED now
    /\ UNCHANGED notChecking

\* time.time() moves on while threads are inside check_rate_limit
TickThreads ==
    /\ now + Window \div 2 <= Now0 + MaxElapsed
    /\ now' = now + Window \div 2
    /\ UNCHANGED <<limiterVars, checking>>
    /\ UNCHANGED notChecking

InitThreads ==
    /\ Unrouted
    /\ RateLimiter
    /\ Unused

NextThreads ==
    \/ \E t \in Checkers :
          \/ RateLimiter_check_rate_limit_read(t)
          \/ RateLimiter_check_rate_limit_store(t)
          \/ RateLimiter_check_rate_limit_test(t)
          \/ RateLimiter_check_rate_limit_append(t)
    \/ TickThreads

SpecThreads == InitThreads /\ [][NextThreads]_vars

(***************************************************************************)
(* Properties                                                              *)
(***************************************************************************)
Events == {trace[i] : i \in 1..Len(trace)}

\* the events that hand the request to the agent
AgentCalls == {"stream_query", "handle_slack", "handle_discord", "handle_webhook"}

AgentInvoked == Events \cap AgentCalls # {}

\* the handlers that verify a platform signature and then dispatch to the agent
Dispatching == cfg.app \in {"AgentRouter", "build_router"}

\* the request carries the digest of its own timestamp and body under the
\* configured signing secret, and its timestamp is not outside the window
GenuineSlack ==
    /\ cfg.secret # ""
    /\ req.sig.scheme = "v0=" /\ req.sig.ascii
    /\ req.sig.key = cfg.secret /\ req.sig.ts = req.ts /\ req.sig.text = req.body
    /\ float(req.ts).kind # "ValueError"
    /\ float(req.ts).kind = "num" => Abs(now - float(req.ts).val) <= Tolerance

\* the request carries the signature of its own timestamp and body made with
\* the private key of the configured public key
GenuineDiscord ==
    /\ cfg.public_key.hex /\ cfg.public_key.sized
    /\ req.dsig.hex /\ req.dsig.sized
    /\ req.dsig.signer = cfg.public_key.id
    /\ req.dsig.ts = req.ts /\ req.dsig.body = req.body

Genuine ==
    IF cfg.channel = "slack" THEN GenuineSlack
    ELSE IF cfg.channel = "discord" THEN GenuineDiscord
    ELSE FALSE

\* C1: on the Slack and Discord endpoints the body is parsed and the agent is
\* invoked only after signature verification succeeded, and only for a request
\* whose signature is genuine.
C1_VerifiedBeforeAgent ==
    (Dispatching /\ cfg.channel \in {"slack", "discord"}) =>
        \A i \in 1..Len(trace) :
            trace[i] \in AgentCalls \cup {"parse"} =>
                /\ \E j \in 1..(i - 1) : trace[j] = "verified"
                /\ Genuine

C1_Witness ==
    /\ cfg.app = "AgentRouter" /\ cfg.channel = "slack"
    /\ "stream_query" \in Events
    /\ pc = "done"

\* C2: a Slack request whose timestamp is more than the tolerance away from
\* now fails verification whatever its signature is: verify_slack_signature
\* returns False, and the handlers answer 400 without parsing the body.
C2_ExpiredTimestampRejected ==
    (/\ Dispatching /\ cfg.channel = "slack" /\ pc # "idle"
     /\ float(req.ts).kind = "num"
     /\ Abs(now - float(req.ts).val) > Tolerance) =>
        /\ verify_slack_signature(cfg.secret, req.body, req.ts, req.sig, now)
              = Returned(FALSE)
        /\ "verified" \notin Events
        /\ "body" \in Events => (pc = "done" /\ resp.status = 400 /\ resp.exc = "")

C2_Witness ==
    /\ Dispatching /\ cfg.channel = "slack" /\ pc = "done"
    /\ req.ts = TS_new
    /\ req.sig = my_signature(Secret, TS_new, req.body)
    /\ decode(req.body).exc = ""
    /\ resp.status = 400

\* C3 as claimed: with the timestamp within tolerance, verify_slack_signature
\* returns True for the digest of the request's own timestamp and body and
\* returns False for every other body or signature.
C3_AsClaimed ==
    (/\ cfg.app = "build_router" /\ cfg.channel = "slack" /\ pc # "idle"
     /\ float(req.ts).kind = "num"
     /\ Abs(now - float(req.ts).val) <= Tolerance) =>
        verify_slack_signature(cfg.secret, req.body, req.ts, req.sig, now)
            = Returned(req.sig = my_signature(cfg.secret, req.ts, req.body))

\* C4 as claimed: a Slack request with a missing or non-numeric timestamp
\* header, or a body that is not UTF-8, ends as a verification failure
\* (HTTP 400), never as an unhandled exception.
C4_AsClaimed ==
    (/\ Dispatching /\ cfg.channel = "slack" /\ pc = "done"
     /\ "body" \in Events
     /\ float(req.ts).kind = "ValueError" \/ decode(req.body).exc # "") =>
        /\ resp.status = 400
        /\ resp.exc = ""

NotEnabledDetails ==
    {"Slack integration is not enabled", "Discord integration is not enabled",
     "Webhook endpoint is not enabled"}

\* C5 as claimed: every request to a disabled channel, with an agent
\* configured, is answered 404 with a detail containing "not enabled".
C5_AsClaimed ==
    (~cfg.enabled /\ cfg.agent_ok /\ pc = "done") =>
        /\ resp.status = 404
        /\ resp.media = "detail"
        /\ resp.text[1] \in NotEnabledDetails

\* C6 as claimed: for a disabled channel the gate is the first thing done; the
\* agent provider is not called, the secret and the body are not read, and
\* the response is the not-enabled one whether or not an agent is configured.
C6_AsClaimed ==
    ~cfg.enabled =>
        /\ Events \subseteq {"gate"}
        /\ pc = "done" => (resp.media = "detail" /\ resp.text[1] \in NotEnabledDetails)

\* C7: a Slack request with a valid signature and payload type
\* "url_verification" is answered 200 text/plain with exactly the payload's
\* challenge, and the agent is not invoked.
C7_UrlVerification ==
    (/\ Dispatching /\ cfg.channel = "slack" /\ pc = "done"
     /\ Genuine /\ cfg.enabled /\ cfg.agent_ok
     /\ \/ req.json /\ req.body = B_urlverif
        \/ ~req.json /\ req.body = B_form_urlverif) =>
        /\ resp.status = 200
        /\ resp.media = "text/plain"
        /\ resp.text = <<"abc123">>
        /\ resp.exc = ""
        /\ ~AgentInvoked

C7_Witness ==
    /\ cfg.app = "AgentRouter" /\ cfg.channel = "slack" /\ pc = "done"
    /\ "verified" \in Events
    /\ ~req.json /\ req.body = B_form_urlverif
    /\ resp.text = <<"abc123">>

\* C8: a Discord request with a valid signature and payload type 1 (PING) is
\* answered 200 with JSON {"type": 1}, and the agent is not invoked.
C8_Ping ==
    (/\ Dispatching /\ cfg.channel = "discord" /\ pc = "done"
     /\ Genuine /\ cfg.enabled /\ cfg.agent_ok /\ cfg.nacl
     /\ req.body = B_ping) =>
        /\ resp.status = 200
        /\ resp.media = "json"
        /\ resp.type = "1"
        /\ resp.text = <<>>
        /\ ~AgentInvoked

C8_Witness ==
    /\ cfg.app = "AgentRouter" /\ cfg.channel = "discord" /\ pc = "done"
    /\ "verified" \in Events
    /\ req.body = B_ping
    /\ resp.type = "1"

\* C9: with the verification library installed, a Discord public key or
\* signature that is not hex, has the wrong length or does not match the
\* timestamp and body gives a False verification and HTTP 401 "Invalid
\* request signature", never an exception or HTTP 500.
C9_DiscordNeverRaises ==
    (/\ Dispatching /\ cfg.channel = "discord" /\ cfg.nacl
     /\ cfg.public_key # KeyUnset
     /\ pc # "idle" /\ ~Genuine) =>
        /\ verify_discord_signature(cfg.public_key, req.dsig, req.ts, req.body, cfg.nacl)
              = Returned(FALSE)
        /\ "verified" \notin Events
        /\ "body" \in Events =>
              /\ pc = "done"
              /\ resp = HTTPException(401, "Invalid request signature")

C9_Witness ==
    /\ cfg.app = "build_router" /\ cfg.channel = "discord" /\ pc = "done"
    /\ cfg.public_key = PublicKey
    /\ req.dsig = DSigNotHex
    /\ resp.status = 401

NotConfiguredDetails ==
    {"SLACK_SIGNING_SECRET not configured", "DISCORD_PUBLIC_KEY not configured",
     "slack signing secret not configured",
     "Agent not configured. Please provide agent dependency."}

\* the channel needs secret material for its verification and has none
SecretMissing ==
    \/ cfg.app \in {"AgentRouter", "secured"} /\ cfg.channel = "slack"
       /\ cfg.verify /\ cfg.secret = ""
    \/ cfg.app = "AgentRouter" /\ cfg.channel = "discord" /\ cfg.public_key = KeyUnset

\* C10 as claimed: with the channel enabled and its secret material not
\* configured, every request is answered 500 with a not-configured message,
\* whatever its headers and body, and the agent is not invoked.
C10_AsClaimed ==
    (cfg.enabled /\ SecretMissing /\ pc = "done") =>
        /\ resp.status = 500
        /\ resp.media = "detail"
        /\ resp.text[1] \in NotConfiguredDetails
        /\ ~AgentInvoked

\* the channel is enabled and has its agent, secret material and library
Configured ==
    /\ cfg.enabled /\ cfg.agent_ok /\ cfg.nacl
    /\ cfg.secret # "" /\ cfg.public_key # KeyUnset

\* C11 as claimed: with the channel enabled and configured, a request that
\* fails verification is answered 400 on Slack ("Request timestamp too old"
\* outside the window, else "Invalid request signature") and 401 "Invalid
\* request signature" on Discord, and is neither parsed nor given to the agent.
C11_AsClaimed ==
    (/\ Dispatching /\ cfg.channel \in {"slack", "discord"} /\ Configured
     /\ pc = "done" /\ "body" \in Events /\ ~Genuine) =>
        /\ "parse" \notin Events
        /\ ~AgentInvoked
        /\ resp = IF cfg.channel = "discord"
                  THEN HTTPException(401, "Invalid request signature")
                  ELSE IF TimestampTooOld(now, float(req.ts))
                  THEN HTTPException(400, "Request timestamp too old")
                  ELSE HTTPException(400, "Invalid request signature")

\* what the parse step makes of the request body
Payload ==
    IF cfg.channel = "slack" THEN SlackPayload(req) ELSE json_loads(req.body)

\* C12 as claimed: a request that passed the gate and the signature check and
\* whose body is not JSON, or not a JSON object, is answered 400 and never
\* reaches the agent, on all three channels.
C12_AsClaimed ==
    (/\ Dispatching /\ pc = "done" /\ "parse" \in Events
     /\ Payload.exc # "" \/ Payload.kind # "dict") =>
        /\ resp.status = 400
        /\ resp.exc = ""
        /\ ~AgentInvoked

\* C13 as claimed: stream_query is never called with an empty message, and
\* a Discord command whose message is empty is answered with the prompt.
C13_AsClaimed ==
    /\ "stream_query" \in Events => Truthy(query.message)
    /\ (/\ cfg.app = "AgentRouter" /\ cfg.channel = "discord" /\ pc = "done"
        /\ "extract" \in Events /\ ~Truthy(query.message)) =>
            resp = InteractionResponse(<<"Please provide a message.">>)

\* C14 as claimed: a webhook request whose JSON object has no message, or an
\* empty one, is answered 400 "Message is required" without invoking the agent.
C14_AsClaimed ==
    (/\ Dispatching /\ cfg.channel = "webhook" /\ cfg.enabled /\ cfg.agent_ok
     /\ pc = "done"
     /\ req.body \in {B_object, B_message_empty}) =>
        /\ resp = HTTPException(400, "Message is required")
        /\ ~AgentInvoked

\* the text of every fragment of a stream, in emission order
RECURSIVE Contents(_)
Contents(frags) ==
    IF frags = <<>> THEN <<>>
    ELSE <<Head(frags).content>> \o Contents(Tail(frags))

\* the text a plain for loop collects from a stream
RECURSIVE Collected(_)
Collected(frags) ==
    IF frags = <<>> THEN <<>>
    ELSE Collect(<<>>, Head(frags)) \o Collected(Tail(frags))

\* C15 as claimed: a webhook request answered by an agent whose generator
\* yields f1..fn and ends normally gets 200 with JSON {"response": f1+...+fn,
\* "session_id": s}, s being the request's session_id or null.
C15_AsClaimed ==
    (/\ cfg.app = "AgentRouter" /\ cfg.channel = "webhook" /\ pc = "done"
     /\ "stream_query" \in Events /\ ~stream.raises /\ ~stream.aio) =>
        resp = WebhookResponse(Join(Contents(stream.frags)),
                               Get(json_loads(req.body).d, "session_id", None))

\* C16 as claimed: the translated text is the concatenation, in emission
\* order, of the text of every fragment; no fragment is dropped.
C16_AsClaimed ==
    (pc = "done" /\ "translate" \in Events) =>
        resp.text = Join(Contents(stream.frags))

\* C17 as claimed: when the agent raises on the Slack channel the response is
\* 200 text/plain "Error: <exception message>".
C17_AsClaimed ==
    (/\ Dispatching /\ cfg.channel = "slack" /\ pc = "done"
     /\ AgentInvoked /\ "except" \in Events) =>
        /\ resp.status = 200
        /\ resp.media = "text/plain"
        /\ Len(resp.text) = 2 /\ resp.text[1] = "Error: "

\* C18 as claimed: when the agent's call or generator raises on the Discord
\* or the webhook channel the response is HTTP 500 with the exception text as its detail.
C18_AsClaimed ==
    (/\ Dispatching /\ cfg.channel \in {"discord", "webhook"} /\ pc = "done"
     /\ AgentInvoked /\ "except" \in Events /\ ~stream.aio) =>
        /\ resp.status = 500
        /\ resp.media = "detail"
        /\ resp.text = <<AgentError>>

\* C19 as claimed: an agent whose stream_query is an async generator gets the
\* same response as one yielding the same fragments from a plain generator.
C19_AsClaimed ==
    (pc = "done" /\ "stream_query" \in Events /\ stream.aio) =>
        /\ resp.status = 200
        /\ resp.text = Join(Collected(stream.frags))

Count(e) == Cardinality({i \in 1..Len(trace) : trace[i] = e})

\* C20: per request stream_query is called at most once, the fragments taken
\* from the stream are its first ones, each taken once and in order, and a
\* response is produced only after the loop over the stream has ended, by
\* exhaustion or by an exception.
C20_DrainBeforeRespond ==
    /\ Count("stream_query") <= 1
    /\ "stream_query" \notin Events => (stream = NoStream /\ Count("fragment") = 0)
    /\ "stream_query" \in Events =>
          /\ Count("fragment") = stream.next - 1
          /\ stream.next <= Len(stream.frags) + 1
          /\ parts = Collected(SubSeq(stream.frags, 1, stream.next - 1))
          /\ resp # NoResponse =>
                /\ pc = "done"
                /\ \/ stream.next = Len(stream.frags) + 1
                   \/ stream.aio /\ "except" \in Events

C20_Witness ==
    /\ pc = "done" /\ "translate" \in Events
    /\ Len(stream.frags) = MaxFrags
    /\ stream.next = MaxFrags + 1
    /\ resp.status = 200

\* the pipeline states in their order
Rank(p) ==
    CASE p = "idle" -> 0
      [] p = "dependencies" -> 1
      [] p = "gate" -> 2
      [] p = "verify" -> 3
      [] p = "parse" -> 4
      [] p = "extract" -> 5
      [] p = "invoke" -> 6
      [] p = "iterate" -> 7
      [] p = "endpoint" -> 8
      [] p = "done" -> 9

PipelineSteps ==
    {"gate", "verified", "parse", "extract", "stream_query", "handle_slack",
     "handle_discord", "handle_webhook", "translate", "except"}

\* a step of a handler moves to a later pipeline state, or takes the next
\* fragment of the stream; a response, once made, stays until it is sent
Forward ==
    /\ pc' # pc => (Rank(pc') > Rank(pc) \/ (pc = "done" /\ pc' = "idle"))
    /\ (pc' = pc /\ pc # "idle") => (pc = "iterate" /\ stream'.next = stream.next + 1)
    /\ resp # NoResponse => (resp' = resp \/ (pc = "done" /\ pc' = "idle"))
    /\ resp' # NoResponse => pc' = "done"

\* C21: for every request and every finite agent stream the pipeline only
\* moves forward through its states, no step happens twice, and the request
\* eventually ends with exactly one response (the normal one or one failure).
C21_ForwardToOneOutcome ==
    /\ [][Forward]_vars
    /\ [](\A e \in PipelineSteps : Count(e) <= 1)
    /\ [](pc = "done" <=> resp # NoResponse)
    /\ (pc # "idle") ~> (pc = "done")

C21_Witness ==
    /\ pc = "done" /\ resp.status = 200
    /\ {"gate", "verified", "parse", "extract", "stream_query", "fragment", "translate"}
          \subseteq Events
    /\ Count("fragment") = MaxFrags

\* C22: the cached engine is constructed at most once per process and every
\* call that returns gives the one cached instance, also when the first calls
\* are made concurrently from several threads
C22_AsClaimed ==
    /\ built <= 1
    /\ \A t \in Threads : caller[t].at = "returned" => caller[t].got = engine

\* C23: request handling keeps no cross-request state, so a request identical to
\* the previous one, handled at the same time, gets the identical response
C23_AsClaimed ==
    (pc = "done" /\ last # NoLast /\ last.req = req) => resp = last.resp

\* the calls for key k that returned True since k was last reset, taken from the
\* i-th to the j-th, fall in a window shorter than Window
InOneWindow(k, i, j) == i <= j /\ allowed[k][j] - allowed[k][i] < Window

\* C24: for one key, the calls that return True within any 60-second window
\* never number more than requests_per_minute; a rejected call is not recorded;
\* a call for one key changes no other key's count; reset(key) makes the key
\* start from zero again
C24_RateLimiter ==
    /\ [](\A k \in Keys : \A i, j \in DOMAIN allowed[k] :
            InOneWindow(k, i, j) => j - i + 1 <= RequestsPerMinute)
    /\ [][(call'.op = "check_rate_limit" /\ ~call'.ok) =>
            /\ allowed' = allowed
            /\ \A k \in Keys : requests'[k] \in {requests[k], Recent(requests[k], now)}]_vars
    /\ [][\A k \in Keys : (call'.op = "check_rate_limit" /\ call'.key # k) =>
            requests'[k] = requests[k]]_vars
    /\ [](\A k \in Keys : (call.op = "reset" /\ call.key = k) => requests[k] = <<>>)
    /\ [][(call.op = "reset" /\ call'.op = "check_rate_limit" /\ call'.key = call.key) =>
            call'.ok]_vars

\* a key was refused once its window was full, and allowed again exactly one
\* window after a call that had been allowed
C24_Witness ==
    /\ call.op = "check_rate_limit" /\ ~call.ok
    /\ Len(requests[call.key]) = RequestsPerMinute
    /\ \E i, j \in DOMAIN allowed[call.key] :
            /\ j - i = RequestsPerMinute
            /\ allowed[call.key][j] - allowed[call.key][i] = Window

\* the header has the form v0=<integer timestamp>,v0=<hex>, the timestamp is
\* within the tolerance of time t, and <hex> is the HMAC under the secret of
\* v0:<timestamp>:<body as UTF-8>
WellSigned(secret, header, body, tolerance, t) ==
    /\ Len(header.parts) = 2
    /\ header.parts[1].scheme = "v0="
    /\ header.parts[1].chars # <<>>
    /\ \A i \in DOMAIN header.parts[1].chars : header.parts[1].chars[i] \in Digits
    /\ Abs(t - DecimalValue(header.parts[1].chars)) <= tolerance
    /\ decode(body).exc = ""
    /\ header.parts[2] = DigestPart(secret, str(DecimalValue(header.parts[1].chars)),
                                    decode(body).text)

\* C25: verify_signature returns True exactly for a header of the form
\* v0=<integer timestamp>,v0=<hex> with the timestamp within the tolerance and
\* <hex> the HMAC of v0:<timestamp>:<body>; for every other header it returns
\* False, and it never raises
C25_VerifySignatureExactly ==
    (cfg.app = "secured" /\ "body" \in Events) =>
        /\ "verified" \in Events
                <=> WellSigned(cfg.secret, req.xsig, req.body, Tolerance, now)
        /\ resp.exc = ""
        /\ "verified" \notin Events => resp = HTTPException(401, "Invalid signature")

\* a header whose timestamp is written with a leading zero and signed as the
\* integer it denotes is accepted
C25_Witness ==
    /\ cfg.app = "secured"
    /\ "verified" \in Events
    /\ "body" \in Events
    /\ req.xsig.parts[1].chars = TS_padded

\* the members of a sequence
Range(s) == {s[i] : i \in DOMAIN s}

\* the retry queue as a process_event call finds it
QueueBefore == IF result'.by = "retry_queue" THEN Tail(retry_queue) ELSE retry_queue

\* what one process_event call did with its event; every call raises
\* processed_count by one
Bookkeeping ==
    processed_count' = processed_count + 1 =>
        LET e == result'.id IN
        /\ result'.status \in {"success", "retry", "failed"}
        /\ result'.status = "success" =>
                /\ retry_queue' = QueueBefore
                /\ failed_events' = failed_events
                /\ retry_counts' = retry_counts
        /\ result'.status = "retry" =>
                /\ retry_counts[e] < RetryCount
                /\ retry_counts' = [retry_counts EXCEPT ![e] = retry_counts[e] + 1]
                /\ retry_queue' # <<>>
                /\ retry_queue'[Len(retry_queue')] = e
                /\ Len(retry_queue') >= Len(QueueBefore)
                /\ failed_events' = failed_events
        /\ result'.status = "failed" =>
                /\ retry_counts[e] >= RetryCount
                /\ failed_events' = Append(failed_events, e)
                /\ retry_queue' = QueueBefore
                /\ retry_counts' = retry_counts

\* C26: when the agent fails, process_event answers 'retry', adds one to the
\* event's _retry_count and appends it to retry_queue (not failed_events) if
\* the _retry_count is below config.retry_count, and otherwise answers
\* 'failed' and appends it to failed_events (not retry_queue); on success
\* the event goes to neither
C26_RetryOrFailed == [][Bookkeeping]_vars

\* an event was sent to retry for the last time it may be, after another had
\* failed for good
C26_Witness ==
    /\ result.status = "retry"
    /\ result.retry_count = RetryCount
    /\ result.id \in Range(retry_queue)
    /\ failed_events # <<>>

\* process_retry_queue, once called, returns
RetryQueueTerminates == (frame.at = "running") ~> (frame.at = "returned")

\* it returns with the queue empty
RetryQueueEmptied == frame.at = "returned" => retry_queue = <<>>

\* every event that was put on the retry queue has by then been processed
\* successfully or is in failed_events
RetryQueueSettled ==
    frame.at = "returned" => queued \subseteq (succeeded \cup Range(failed_events))

\* the _retry_count an event had when process_retry_queue attempted it
AttemptedWith ==
    IF result.status = "retry" THEN result.retry_count - 1 ELSE result.retry_count

RetryQueueBounded == result.by = "retry_queue" => AttemptedWith <= RetryCount

\* C27: process_retry_queue terminates whatever the agent does, with
\* retry_queue empty; every event that was queued ends processed or in
\* failed_events; no event is attempted with a _retry_count above
\* config.retry_count
C27_AsClaimed ==
    /\ RetryQueueTerminates
    /\ []RetryQueueEmptied
    /\ []RetryQueueSettled
    /\ []RetryQueueBounded

\* C28: after any add_message, process_message and clear_conversation calls a
\* conversation's history has at most max_history_length entries, and they
\* are the messages added last, in the order they were added
C28_HistoryIsLatest ==
    \A c \in ConversationIds :
        /\ Len(History(conversations, c)) <= MaxHistoryLength
        /\ History(conversations, c) = LastN(added[c], MaxHistoryLength)

\* a conversation lost its oldest messages to the trim, the last of them during
\* a process_message
C28_Witness ==
    \E c \in DOMAIN conversations :
        /\ Len(added[c]) > MaxHistoryLength + 1
        /\ Len(conversations[c]) = MaxHistoryLength
        /\ conversations[c][MaxHistoryLength].role = "assistant"
        /\ conversations[c][MaxHistoryLength - 1].role = "user"

\* a sequence back to front
Reversed(s) == [i \in 1..Len(s) |-> s[Len(s) + 1 - i]]

\* the callbacks invoked so far in this call, in order
InvokedCallbacks == [i \in 1..Len(invoked) |-> invoked[i].callback]

\* C29: a call of cleanup invokes every registered cleanup callback exactly
\* once, in reverse order of registration; a callback that raises neither makes
\* cleanup raise nor keeps the remaining callbacks from being invoked
C29_CleanupRunsAll ==
    /\ [](cleaning.at # "raised")
    /\ [](cleaning.at = "running" =>
            InvokedCallbacks = SubSeq(Reversed(cleanup_callbacks), 1, Len(invoked)))
    /\ [](cleaning.at = "returned" => InvokedCallbacks = Reversed(cleanup_callbacks))
    /\ (cleaning.at = "running") ~> (cleaning.at = "returned")

\* cleanup returned after the callback invoked first had raised and two more
\* had been invoked after it
C29_Witness ==
    /\ cleaning.at = "returned"
    /\ Len(invoked) = MaxResources
    /\ invoked[1].raised
    /\ invoked[1].callback.resource = MaxResources
    /\ invoked[MaxResources].callback.resource = 1

\* the calls the handler has made for the event
SlackCalls == Range(slack_run.calls)

\* the bot's mention occurs in some message of the thread history, which was
\* fetched without error
MentionedInThread ==
    /\ slack_world.replies = "ok"
    /\ slack_world.auth_test = "ok"
    /\ \E i \in DOMAIN slack_world.messages :
            In(BotMention, slack_world.messages[i])

\* C30: get_message calls the agent and say only for an event with no bot_id
\* and no subtype that has a thread_ts, when the bot's mention occurs in a
\* message of the fetched thread history and the text is not an "(aside)"
\* without a mention of the bot; otherwise, and when fetching the history
\* fails, it calls neither
C30_ThreadRepliesOnly ==
    (SlackCalls \cap {"stream_query", "say"} # {}) =>
        /\ ~Truthy(slack_event.bot_id)
        /\ ~Truthy(slack_event.subtype)
        /\ Truthy(slack_event.thread_ts)
        /\ MentionedInThread
        /\ ~(In(Aside, slack_event.text) /\ ~In(BotMention, slack_event.text))

\* an "(aside)" that mentions the bot was answered in the thread
C30_Witness ==
    /\ slack_run.at = "done"
    /\ {"stream_query", "say"} \subseteq SlackCalls
    /\ In(Aside, slack_event.text)
    /\ In(BotMention, slack_event.text)

\* the event_data the loop of the handler reads before it stops
RECURSIVE Consumed(_)
Consumed(events) ==
    IF events = <<>> \/ Head(events) = "broken" THEN <<>>
    ELSE <<Head(events)>> \o Consumed(Tail(events))

\* the texts of the parts, joined in the order the agent yielded them
RECURSIVE AgentText(_)
AgentText(events) ==
    IF events = <<>> THEN <<>>
    ELSE (IF Head(events) \in {"A", "B"} THEN <<Head(events)>> ELSE <<>>)
         \o AgentText(Tail(events))

\* reading the agent's stream ended in an exception
StreamFailed ==
    slack_world.agent.raises \/ "broken" \in Range(slack_world.agent.events)

\* C31: when app_mention has returned, say was called exactly once, with
\* thread_ts equal to the event's thread_ts or, when the event has none, its
\* ts; the text is an error message when reading the agent's stream raised,
\* else the concatenated text when it is not empty, else the fallback
C31_SayOncePerMention ==
    (slack_run.handler = "app_mention" /\ slack_run.at = "done") =>
        /\ Len(slack_run.said) = 1
        /\ slack_run.said[1].thread_ts =
              (IF slack_event.thread_ts # None THEN slack_event.thread_ts
               ELSE slack_event.ts)
        /\ LET text == AgentText(slack_world.agent.events) IN
           IF StreamFailed
           THEN \E e \in {AgentError, "IndexError"} :
                    slack_run.said[1].text = ErrorMessage(e)
           ELSE IF text # <<>>
           THEN slack_run.said[1].text = text
           ELSE slack_run.said[1].text = Fallback

\* a mention outside a thread whose agent yielded only event_data with no text
\* was answered with the fallback under the event's own ts
C31_Witness ==
    /\ slack_run.handler = "app_mention"
    /\ slack_run.at = "done"
    /\ slack_event.thread_ts = None
    /\ slack_event.ts = Ts2
    /\ slack_world.agent = EventData(<<"other", "blank">>, FALSE)
    /\ slack_run.said = <<Say(Fallback, Ts2)>>

\* the timestamp of the thread an event belongs to
ThreadTs == IF slack_event.thread_ts # None THEN slack_event.thread_ts ELSE slack_event.ts

\* every stream_query call made for the event carries the thread's session_id
SessionOfThread ==
    \A i \in DOMAIN slack_run.asked :
        slack_run.asked[i].session_id = <<slack_event.channel[2], "_", ThreadTs[2]>>

\* every stream_query call made for the event carries the thread's timestamp
\* as user_id
UserOfThread ==
    \A i \in DOMAIN slack_run.asked : slack_run.asked[i].user_id = ThreadTs

\* C32: in every Slack handler that passes a session, the agent is called with
\* session_id = channel + "_" + (thread_ts, or ts without a thread_ts) and with
\* user_id = that timestamp, so that all events of one thread reach the agent
\* with the same session_id and user_id
C32_AsClaimed == SessionOfThread /\ UserOfThread

\* the user a call is made for
UserOf(f) == IF f.user_id = NoId \/ f.user_id = Id(<<>>) THEN DefaultUser ELSE f.user_id.id

\* what the claim says of one call of stream_query
AdapterCall(f) ==
    IF f.session_id # NoId
    THEN /\ f.listed = <<>>
         /\ f.created = <<>>
         /\ f.queried \in {<<>>, <<f.session_id>>}
         /\ f.at = "done" => f.queried = <<f.session_id>>
    ELSE /\ Len(f.listed) <= 1
         /\ Len(f.created) <= 1
         /\ \A i \in DOMAIN f.listed : f.listed[i].user_id = UserOf(f)
         /\ \A i \in DOMAIN f.created :
               /\ f.created[i].user_id = UserOf(f)
               /\ f.listed = <<[user_id |-> UserOf(f), sessions |-> <<>>]>>
         /\ f.queried # <<>> =>
               /\ Len(f.listed) = 1
               /\ f.queried =
                     IF f.listed[1].sessions # <<>>
                     THEN <<Id(f.listed[1].sessions[1])>>
                     ELSE <<Id(f.created[1].id)>>
         /\ f.at = "done" => f.queried # <<>>

\* C33: a stream_query call with a session_id makes no list_sessions and no
\* create_session call and queries the engine with that session_id; a call
\* without one lists the sessions of user_id or "default_user" once, queries
\* with the first one listed, and creates a session, at most one, only when
\* none was listed
C33_AdapterSessions == \A t \in Callers : AdapterCall(vertex_frames[t])

\* a user who came to hold two sessions is served with the first of them
C33_Witness ==
    \E t \in Callers :
        /\ vertex_frames[t].at = "done"
        /\ vertex_frames[t].session_id = NoId
        /\ Len(vertex_sessions[User456]) = 2
        /\ vertex_frames[t].listed[1].sessions = vertex_sessions[User456]
        /\ vertex_frames[t].queried = <<Id(vertex_sessions[User456][1])>>

\* the interaction of a Discord request that passed verification
Interaction == json_loads(req.body).d

\* the options of the command and the places of those named "message"
CommandOptions ==
    IF "data.options" \in DOMAIN Interaction THEN Interaction["data.options"][2] ELSE <<>>

MessageOptions == {i \in DOMAIN CommandOptions : CommandOptions[i]["name"] = Str("message")}

\* C34: when AgentRouter's Discord handler has extracted the query of an
\* APPLICATION_COMMAND, the message is the value of the first option named
\* "message", or the command name when there is none, and the user id is
\* member.user.id, or "" when member, user or id is missing
C34_CommandQuery ==
    (cfg.app = "AgentRouter" /\ cfg.channel = "discord" /\ "extract" \in Events) =>
        /\ Interaction["type"] = Num("2")
        /\ query.message =
              IF MessageOptions # {}
              THEN CommandOptions[CHOOSE i \in MessageOptions :
                                     \A j \in MessageOptions : i <= j]["value"]
              ELSE Interaction["data.name"]
        /\ query.user_id =
              IF "member.user.id" \in DOMAIN Interaction
              THEN Interaction["member.user.id"]
              ELSE Str("")

\* a command whose second and third options are named "message" was answered
\* after the agent was asked with the second option's value and no user
C34_Witness ==
    /\ cfg.app = "AgentRouter" /\ cfg.channel = "discord"
    /\ pc = "done"
    /\ req.body = B_command_second
    /\ query.message = Str("hi")
    /\ query.user_id = Str("")
    /\ "stream_query" \in Events

\* the last n entries of a conversation's history
Latest(n) == LastN(History(conversations, processing.conversation_id), n)

\* C35: process_message has the user's message in the history when the agent
\* is asked (the agent is handed a history that ends with it) and adds no
\* assistant entry while the stream is read; when it returns the history ends
\* with the user's message and the assistant's reply; when the agent raises
\* the history ends with the user's message and no reply was added
C35_UserThenAssistant ==
    LET user == Message("user", processing.user)
        assistant == Message("assistant", processing.assistant)
    IN  /\ processing.at \in {"agent", "raised"} =>
              /\ Latest(1) = <<user>>
              /\ processing.history # <<>>
              /\ processing.history[Len(processing.history)] = user
              /\ processing.assistant = 0
              /\ serial = processing.user
        /\ processing.at = "returned" =>
              /\ Latest(2) = <<user, assistant>>
              /\ processing.stream.next > Len(processing.stream.frags)
              /\ serial = processing.assistant

\* the agent raised after two chunks were read: the user's message is the
\* last entry of a full history
C35_Witness ==
    /\ processing.at = "raised"
    /\ processing.stream.raises
    /\ processing.stream.next = 3
    /\ Len(History(conversations, processing.conversation_id)) = MaxHistoryLength
    /\ Latest(1) = <<Message("user", processing.user)>>

\* the calls admitted for a key within one window never number more than
\* requests_per_minute
AdmittedWithinLimit ==
    \A k \in Keys : \A i, j \in DOMAIN allowed[k] :
        (i <= j /\ Abs(allowed[k][j] - allowed[k][i]) < Window) =>
            j - i + 1 <= RequestsPerMinute

\* the record of a key holds the time of every call admitted within the last
\* window
AdmittedRecorded ==
    \A k \in Keys : \A i \in DOMAIN allowed[k] :
        allowed[k][i] > now - Window =>
            Cardinality({j \in DOMAIN requests[k] : requests[k][j] = allowed[k][i]})
                >= Cardinality({j \in DOMAIN allowed[k] : allowed[k][j] = allowed[k][i]})

\* C36: with check_rate_limit running in several threads for one key, the
\* calls admitted within a window still never number more than
\* requests_per_minute, and no admitted call's time is lost from the record
C36_AsClaimed == AdmittedWithinLimit /\ AdmittedRecorded

\* a process_event call that answers 'retry' while the retry queue is full
\* leaves the queue as long as it was, without its oldest event and with the
\* new one at the end, and adds nothing to failed_events
DropsOldest ==
    (processed_count' = processed_count + 1 /\ result'.status = "retry"
        /\ Len(QueueBefore) = RetryQueueMaxlen) =>
            /\ retry_queue' = Append(Tail(QueueBefore), result'.id)
            /\ failed_events' = failed_events
            /\ Head(QueueBefore) \notin Range(failed_events')

C38_UnsupportedType ==
    (/\ cfg.app = "AgentRouter" /\ cfg.channel = "discord" /\ pc = "done"
     /\ Genuine /\ cfg.enabled /\ cfg.agent_ok /\ cfg.nacl
     /\ json_loads(req.body).kind = "dict"
     /\ Get(Interaction, "type", None) \notin {Num("1"), Num("2")}) =>
        /\ resp.status = 200
        /\ resp.media = "json"
        /\ resp.type = "4"
        /\ resp.text = <<"Unsupported interaction type">>
        /\ ~AgentInvoked

\* a signed message component interaction (type 3) was answered
C38_Witness ==
    /\ cfg.app = "AgentRouter" /\ cfg.channel = "discord" /\ pc = "done"
    /\ "verified" \in Events
    /\ req.body = B_component
    /\ resp.type = "4"
    /\ resp.text = <<"Unsupported interaction type">>

====
